---- MODULE Spec2Model ----
(***************************************************************************)
(* The streaming relay client of agentic_client_a2a.py: A2AClient's        *)
(* invoke_agent (one streamed POST, the line reader, the envelope          *)
(* extraction, the accumulation of text chunks), discover_agent and the    *)
(* two client workflows that chain two invocations; and, of                *)
(* blogpost_server_a2a.py, parse_streaming_json and the part of            *)
(* blogpost_generator_agent that leads to the content workflow.  Also how  *)
(* deepsearch_agent_handler and extract_query_from_message read the parts  *)
(* of a message, and the two other orchestrators of the repository:        *)
(* BeeAIPlatformIntegration.orchestrate_workflow with send_message, and    *)
(* SimpleA2ADemo.run_complete_workflow.                                    *)
(*                                                                         *)
(* A Python str is a sequence of one-character strings, a bytes object a   *)
(* sequence of byte values.  json.loads is the recursive-descent scanner   *)
(* of the standard library restricted to the characters the modelled       *)
(* streams use: objects, arrays, strings with the two-character escapes,   *)
(* unsigned integers, null, true, false, and blanks (space, tab).          *)
(* Fractions, exponents, signs, NaN/Infinity and \uXXXX escapes do not     *)
(* occur in any modelled line.                                             *)
(***************************************************************************)
EXTENDS Naturals, Sequences, FiniteSets, TLC

VARIABLES
    mode,             \* which entry point runs
    wpc,              \* position of the workflow coroutine
    stage,            \* 0 before the first invocation, then 1 or 2
    pc,               \* position of invoke_agent inside the current call
    text_input,       \* invoke_agent's argument
    status_code,      \* resp.status_code of the current call (0: no response yet)
    body,             \* the error body resp.aread() returned in this call
    lines,            \* the lines resp.aiter_lines() has delivered in this call
    payloads,         \* the data_str values that got past the reader (line 119)
    event_count,      \* invoke_agent's event_count
    chunks,           \* invoke_agent's chunks
    ending,           \* how the current call left its try block
    outcome,          \* what the current call returned or raised
    finalized,        \* how many times the current call has returned or raised
    history,          \* the outcomes of the calls made so far, in order
    requests,         \* every HTTP request sent so far, in order
    topic,            \* the workflow's topic
    research_content, \* the workflow's research_content
    report,           \* what the workflow printed about a failure or its completion
    agent_card,       \* the workflow's agent_card, as discover_agent returned it
    card_reply,       \* what the agent answered to the last GET of its card
    agent_message,    \* blogpost_generator_agent's message: its parts, in order
    agent_pc,         \* position of blogpost_generator_agent
    agent_content,    \* blogpost_generator_agent's research_content
    initial_state,    \* the BlogState handed to blog_workflow.invoke
    parse_input,      \* parse_streaming_json's argument research_content
    parse_pc,         \* position of parse_streaming_json
    json_objects,     \* parse_streaming_json's json_objects
    parse_idx,        \* how many of json_objects the loop has been through
    parsed_chunks,    \* parse_streaming_json's parsed_chunks
    text_matches,     \* parse_streaming_json's text_matches
    parse_route,      \* which return statement parse_streaming_json took
    parse_result,     \* what parse_streaming_json returned
    calls             \* the locals of the invoke_agent calls that run as concurrent tasks

\* The state of the client's entry point and of its current invoke_agent call.
clientVars == <<wpc, stage, pc, text_input, status_code, body, lines, payloads,
                event_count, chunks, ending, outcome, finalized, history, requests,
                topic, research_content, report, agent_card, card_reply>>

\* The state of the blog post agent and of its call of parse_streaming_json.
serverVars == <<agent_message, agent_pc, agent_content, initial_state, parse_input,
                parse_pc, json_objects, parse_idx, parsed_chunks, text_matches,
                parse_route, parse_result>>

vars == <<mode, clientVars, serverVars, calls>>

----------------------------------------------------------------------------
(* Python str helpers *)

\* str.strip() with no argument strips white space; of the modelled characters
\* these are the space, the tab, the line breaks and the form feed.
PyWhitespace == {" ", "\t", "\n", "\r", "\f"}

RECURSIVE LStrip(_)
LStrip(s) ==
    IF s # <<>> /\ Head(s) \in PyWhitespace THEN LStrip(Tail(s)) ELSE s

RECURSIVE RStrip(_)
RStrip(s) ==
    IF s # <<>> /\ s[Len(s)] \in PyWhitespace
    THEN RStrip(SubSeq(s, 1, Len(s) - 1))
    ELSE s

Strip(s) == RStrip(LStrip(s))

\* s.startswith(p)
StartsWith(s, p) ==
    /\ Len(p) <= Len(s)
    /\ \A i \in 1..Len(p) : s[i] = p[i]

\* s[i:i+len(p)] == p, with i a 1-based position
MatchAt(s, i, p) ==
    /\ i + Len(p) - 1 <= Len(s)
    /\ \A k \in 1..Len(p) : s[i + k - 1] = p[k]

\* "".join(parts)
RECURSIVE Join(_)
Join(parts) ==
    IF parts = <<>> THEN <<>> ELSE Head(parts) \o Join(Tail(parts))

\* s[:n]
Slice(s, n) == SubSeq(s, 1, IF Len(s) < n THEN Len(s) ELSE n)

\* s[n:]
Drop(s, n) == SubSeq(s, n + 1, Len(s))

Digits == <<"0", "1", "2", "3", "4", "5", "6", "7", "8", "9">>

DigitValue(c) == CHOOSE d \in 0..9 : Digits[d + 1] = c

IsDigit(c) == \E d \in 1..10 : Digits[d] = c

\* str(n) for an int n >= 0
RECURSIVE IntStr(_)
IntStr(n) ==
    IF n < 10 THEN <<Digits[n + 1]>>
    ELSE Append(IntStr(n \div 10), Digits[(n % 10) + 1])

----------------------------------------------------------------------------
(* json.loads *)

\* JSON values: t is the Python type json.loads builds, v the value.  A dict is
\* the sequence of its (key, value) pairs in source order; a repeated key keeps
\* its last value, as in Python.
JStr(s)    == [t |-> "str",  v |-> s]
JInt(n)    == [t |-> "int",  v |-> n]
JList(xs)  == [t |-> "list", v |-> xs]
JDict(kvs) == [t |-> "dict", v |-> kvs]
JNone      == [t |-> "None", v |-> <<>>]
JBool(b)   == [t |-> "bool", v |-> b]

ScanFail == [ok |-> FALSE, val |-> JNone, pos |-> 0]
ScanOk(val, pos) == [ok |-> TRUE, val |-> val, pos |-> pos]

\* json.decoder.WHITESPACE: [ \t\n\r]*
JsonWhitespace == {" ", "\t", "\n", "\r"}

RECURSIVE SkipWs(_, _)
SkipWs(s, i) ==
    IF i <= Len(s) /\ s[i] \in JsonWhitespace THEN SkipWs(s, i + 1) ELSE i

\* Control characters a strict JSON string may not hold unescaped.
ControlChars == {"\t", "\n", "\r", "\f"}

\* The character a two-character escape stands for.
EscapeOf(c) ==
    CASE c = "\"" -> <<"\"">>
      [] c = "\\" -> <<"\\">>
      [] c = "/"  -> <<"/">>
      [] c = "n"  -> <<"\n">>
      [] c = "r"  -> <<"\r">>
      [] c = "t"  -> <<"\t">>
      [] c = "f"  -> <<"\f">>
      [] OTHER    -> <<>>

\* py_scanstring: i is the position after the opening quote.
RECURSIVE ScanString(_, _, _)
ScanString(s, i, acc) ==
    IF i > Len(s) THEN ScanFail
    ELSE IF s[i] = "\"" THEN ScanOk(JStr(acc), i + 1)
    ELSE IF s[i] = "\\" THEN
        IF i + 1 > Len(s) \/ EscapeOf(s[i + 1]) = <<>> THEN ScanFail
        ELSE ScanString(s, i + 2, acc \o EscapeOf(s[i + 1]))
    ELSE IF s[i] \in ControlChars THEN ScanFail
    ELSE ScanString(s, i + 1, Append(acc, s[i]))

\* NUMBER_RE on an unsigned integer: 0, or a nonzero digit and further digits.
RECURSIVE ScanDigits(_, _, _)
ScanDigits(s, i, n) ==
    IF i <= Len(s) /\ IsDigit(s[i])
    THEN ScanDigits(s, i + 1, 10 * n + DigitValue(s[i]))
    ELSE ScanOk(JInt(n), i)

ScanNumber(s, i) ==
    IF s[i] = "0" THEN ScanOk(JInt(0), i + 1) ELSE ScanDigits(s, i, 0)

RECURSIVE ScanOnce(_, _)
RECURSIVE ScanMembers(_, _, _)
RECURSIVE ScanElements(_, _, _)

\* JSONObject, after the first key's opening quote has been located at j.
ScanMembers(s, j, acc) ==
    IF j > Len(s) \/ s[j] # "\"" THEN ScanFail
    ELSE LET key == ScanString(s, j + 1, <<>>) IN
      IF ~key.ok THEN ScanFail
      ELSE LET c == SkipWs(s, key.pos) IN
        IF c > Len(s) \/ s[c] # ":" THEN ScanFail
        ELSE LET val == ScanOnce(s, SkipWs(s, c + 1)) IN
          IF ~val.ok THEN ScanFail
          ELSE LET e    == SkipWs(s, val.pos)
                   kvs  == Append(acc, [k |-> key.val.v, v |-> val.val])
               IN
            IF e > Len(s) THEN ScanFail
            ELSE IF s[e] = "}" THEN ScanOk(JDict(kvs), e + 1)
            ELSE IF s[e] # "," THEN ScanFail
            ELSE ScanMembers(s, SkipWs(s, e + 1), kvs)

\* JSONObject: i is the position after the opening brace.
ScanObject(s, i) ==
    LET j == SkipWs(s, i) IN
    IF j <= Len(s) /\ s[j] = "}" THEN ScanOk(JDict(<<>>), j + 1)
    ELSE ScanMembers(s, j, <<>>)

\* JSONArray, with the next element expected at j.
ScanElements(s, j, acc) ==
    LET val == ScanOnce(s, j) IN
    IF ~val.ok THEN ScanFail
    ELSE LET e  == SkipWs(s, val.pos)
             xs == Append(acc, val.val)
         IN
      IF e > Len(s) THEN ScanFail
      ELSE IF s[e] = "]" THEN ScanOk(JList(xs), e + 1)
      ELSE IF s[e] # "," THEN ScanFail
      ELSE ScanElements(s, SkipWs(s, e + 1), xs)

\* JSONArray: i is the position after the opening bracket.
ScanArray(s, i) ==
    LET j == SkipWs(s, i) IN
    IF j <= Len(s) /\ s[j] = "]" THEN ScanOk(JList(<<>>), j + 1)
    ELSE ScanElements(s, j, <<>>)

\* scan_once: the value that starts exactly at position i.
ScanOnce(s, i) ==
    IF i > Len(s) THEN ScanFail
    ELSE IF s[i] = "\"" THEN ScanString(s, i + 1, <<>>)
    ELSE IF s[i] = "{" THEN ScanObject(s, i + 1)
    ELSE IF s[i] = "[" THEN ScanArray(s, i + 1)
    ELSE IF MatchAt(s, i, <<"n", "u", "l", "l">>) THEN ScanOk(JNone, i + 4)
    ELSE IF MatchAt(s, i, <<"t", "r", "u", "e">>) THEN ScanOk(JBool(TRUE), i + 4)
    ELSE IF MatchAt(s, i, <<"f", "a", "l", "s", "e">>) THEN ScanOk(JBool(FALSE), i + 5)
    ELSE IF IsDigit(s[i]) THEN ScanNumber(s, i)
    ELSE ScanFail

\* json.loads(s): blanks, one value, blanks, end of input; ok = FALSE stands for
\* json.JSONDecodeError.
JsonLoads(s) ==
    LET r == ScanOnce(s, SkipWs(s, 1)) IN
    IF r.ok /\ SkipWs(s, r.pos) = Len(s) + 1 THEN r ELSE ScanFail

----------------------------------------------------------------------------
(* Python values as the extraction code reads them *)

\* key in d
DictHas(d, key) == \E i \in 1..Len(d.v) : d.v[i].k = key

\* d[key], for a key that is present: the last pair with that key
DictGet(d, key) ==
    LET i == CHOOSE j \in 1..Len(d.v) :
                 /\ d.v[j].k = key
                 /\ \A m \in (j + 1)..Len(d.v) : d.v[m].k # key
    IN d.v[i].v

\* d.get(key, default)
DictGetOr(d, key, default) == IF DictHas(d, key) THEN DictGet(d, key) ELSE default

\* repr() and str() of the values json.loads builds.  repr of a str is written
\* with single quotes; the modelled texts hold no quote or backslash.
RECURSIVE PyRepr(_)
RECURSIVE ReprItems(_)
RECURSIVE ReprPairs(_)

ReprItems(xs) ==
    IF xs = <<>> THEN <<>>
    ELSE IF Len(xs) = 1 THEN PyRepr(xs[1])
    ELSE PyRepr(xs[1]) \o <<",", " ">> \o ReprItems(Tail(xs))

ReprPairs(kvs) ==
    IF kvs = <<>> THEN <<>>
    ELSE LET one == <<"'">> \o kvs[1].k \o <<"'", ":", " ">> \o PyRepr(kvs[1].v) IN
         IF Len(kvs) = 1 THEN one ELSE one \o <<",", " ">> \o ReprPairs(Tail(kvs))

\* The pairs of a dict as Python keeps them: one pair per key, at the place of
\* the key's first occurrence, with its last value.
DictItems(d) ==
    LET first(i) == \A m \in 1..(i - 1) : d.v[m].k # d.v[i].k
        idx      == SelectSeq([i \in 1..Len(d.v) |-> i], first)
    IN [n \in 1..Len(idx) |-> [k |-> d.v[idx[n]].k, v |-> DictGet(d, d.v[idx[n]].k)]]

PyRepr(x) ==
    CASE x.t = "str"  -> <<"'">> \o x.v \o <<"'">>
      [] x.t = "int"  -> IntStr(x.v)
      [] x.t = "None" -> <<"N", "o", "n", "e">>
      [] x.t = "bool" -> IF x.v THEN <<"T", "r", "u", "e">>
                                ELSE <<"F", "a", "l", "s", "e">>
      [] x.t = "list" -> <<"[">> \o ReprItems(x.v) \o <<"]">>
      [] x.t = "dict" -> <<"{">> \o ReprPairs(DictItems(x)) \o <<"}">>

\* str(x)
PyStr(x) == IF x.t = "str" THEN x.v ELSE PyRepr(x)

\* Whether "for part in x" can start: a list, a dict (its keys) or a str (its
\* characters); anything else raises TypeError.
Iterable(x) == x.t \in {"list", "dict", "str"}

\* The values "for part in x" binds part to.
IterParts(x) ==
    CASE x.t = "list" -> x.v
      [] x.t = "dict" -> [i \in 1..Len(DictItems(x)) |-> JStr(DictItems(x)[i].k)]
      [] x.t = "str"  -> [i \in 1..Len(x.v) |-> JStr(<<x.v[i]>>)]

\* bool(x)
Truthy(x) ==
    CASE x.t \in {"list", "dict", "str"} -> x.v # <<>>
      [] x.t = "int"  -> x.v # 0
      [] x.t = "bool" -> x.v
      [] x.t = "None" -> FALSE

----------------------------------------------------------------------------
(* The envelope extraction of invoke_agent *)

K_statusUpdate == <<"s", "t", "a", "t", "u", "s", "U", "p", "d", "a", "t", "e">>
K_status       == <<"s", "t", "a", "t", "u", "s">>
K_message      == <<"m", "e", "s", "s", "a", "g", "e">>
K_content      == <<"c", "o", "n", "t", "e", "n", "t">>
K_text         == <<"t", "e", "x", "t">>

\* A variant that appends every text chunk, blank or not.
KeepsChunkBlankOnly(text_chunk) == TRUE

\* Whether a text chunk is appended: "if text_chunk.strip():"
KeepsChunk(text_chunk) == Strip(text_chunk) # <<>>

\* The loop over the content parts: the chunks it appends, in order.
RECURSIVE PartTexts(_)
PartTexts(parts) ==
    IF parts = <<>> THEN <<>>
    ELSE LET part == Head(parts)
             rest == PartTexts(Tail(parts))
         IN IF part.t = "dict" /\ DictHas(part, K_text)
            THEN LET text_chunk == PyStr(DictGet(part, K_text)) IN
                 IF KeepsChunk(text_chunk) THEN <<text_chunk>> \o rest ELSE rest
            ELSE rest

\* How many events of a call have their extraction printed: "if event_count <= 3"
DebugEvents == 3

Extracted(texts) == [raised |-> "", texts |-> texts]
Raised(exc)      == [raised |-> exc, texts |-> <<>>]

\* A variant that subscripts the keys under statusUpdate where the code
\* calls .get with a default.
FromStatusUpdateSubscripted(data, n) ==
    LET su == DictGet(data, K_statusUpdate) IN
    IF su.t # "dict" THEN Raised("AttributeError")
    ELSE IF ~DictHas(su, K_status) THEN Raised("KeyError")
    ELSE LET status == DictGet(su, K_status) IN
      IF status.t # "dict" THEN Raised("AttributeError")
      ELSE IF ~DictHas(status, K_message) THEN Raised("KeyError")
      ELSE LET message == DictGet(status, K_message) IN
        IF message.t # "dict" THEN Raised("AttributeError")
        ELSE IF ~DictHas(message, K_content) THEN Raised("KeyError")
        ELSE LET content_list == DictGet(message, K_content) IN
          IF ~Iterable(content_list) THEN Raised("TypeError")
          ELSE IF n <= DebugEvents /\ content_list.t = "dict" /\ Truthy(content_list)
               THEN Raised("KeyError")
          ELSE Extracted(PartTexts(IterParts(content_list)))

\* The branch for a dict with "statusUpdate"; n is event_count, which guards
\* the debug output (its len() and content_list[0]).
FromStatusUpdate(data, n) ==
    LET su == DictGet(data, K_statusUpdate) IN
    IF su.t # "dict" THEN Raised("AttributeError")
    ELSE LET status == DictGetOr(su, K_status, JDict(<<>>)) IN
      IF status.t # "dict" THEN Raised("AttributeError")
      ELSE LET message == DictGetOr(status, K_message, JDict(<<>>)) IN
        IF message.t # "dict" THEN Raised("AttributeError")
        ELSE LET content_list == DictGetOr(message, K_content, JList(<<>>)) IN
          IF ~Iterable(content_list) THEN Raised("TypeError")
          ELSE IF n <= DebugEvents /\ content_list.t = "dict" /\ Truthy(content_list)
               THEN Raised("KeyError")
          ELSE Extracted(PartTexts(IterParts(content_list)))

\* The branch for a dict with a top-level "content" and no "statusUpdate".
FromDirectContent(data) ==
    LET content == DictGet(data, K_content) IN
    IF ~Iterable(content) THEN Raised("TypeError")
    ELSE Extracted(PartTexts(IterParts(content)))

\* A variant that tests the payload itself, not its trimmed form, for the
\* brace.
PlainTextUntrimmedTest(data_str) ==
    IF data_str # <<>> /\ ~StartsWith(data_str, <<"{">>)
    THEN Extracted(<<data_str>>)
    ELSE Extracted(<<>>)

\* A variant that appends the payload without its surrounding blanks.
PlainTextStripped(data_str) ==
    IF data_str # <<>> /\ ~StartsWith(Strip(data_str), <<"{">>)
    THEN Extracted(<<Strip(data_str)>>)
    ELSE Extracted(<<>>)

\* The except json.JSONDecodeError branch: the payload itself, when it does
\* not look like JSON.
PlainText(data_str) ==
    IF data_str # <<>> /\ ~StartsWith(Strip(data_str), <<"{">>)
    THEN Extracted(<<data_str>>)
    ELSE Extracted(<<>>)

\* The body of the try/except for one event: what it appends to chunks and
\* the exception, if any, that escapes it.
\* A variant that reads the top-level content as well when both keys are there.
ExtractEventBothShapes(data_str, n) ==
    LET r == JsonLoads(data_str) IN
    IF ~r.ok THEN PlainText(data_str)
    ELSE LET data == r.val IN
      IF data.t = "dict" /\ DictHas(data, K_statusUpdate)
      THEN LET s == FromStatusUpdate(data, n) IN
           IF s.raised = "" /\ DictHas(data, K_content)
           THEN Extracted(s.texts \o FromDirectContent(data).texts)
           ELSE s
      ELSE IF data.t = "dict" /\ DictHas(data, K_content)
      THEN FromDirectContent(data)
      ELSE Extracted(<<>>)

\* A variant that keeps the payload as text when no shape matches.
ExtractEventLiteral(data_str, n) ==
    LET r == JsonLoads(data_str) IN
    IF ~r.ok THEN PlainText(data_str)
    ELSE LET data == r.val IN
      IF data.t = "dict" /\ DictHas(data, K_statusUpdate)
      THEN FromStatusUpdate(data, n)
      ELSE IF data.t = "dict" /\ DictHas(data, K_content)
      THEN FromDirectContent(data)
      ELSE Extracted(<<data_str>>)

ExtractEvent(data_str, n) ==
    LET r == JsonLoads(data_str) IN
    IF ~r.ok THEN PlainText(data_str)
    ELSE LET data == r.val IN
      IF data.t = "dict" /\ DictHas(data, K_statusUpdate)
      THEN FromStatusUpdate(data, n)
      ELSE IF data.t = "dict" /\ DictHas(data, K_content)
      THEN FromDirectContent(data)
      ELSE Extracted(<<>>)

----------------------------------------------------------------------------
(* The wire format and the modelled inputs *)

\* The literal prefix of a data line and the sentinel payload.
DataPrefix == <<"d", "a", "t", "a", ":", " ">>
DoneMarker == <<"[", "D", "O", "N", "E", "]">>

Quoted(s) == <<"\"">> \o s \o <<"\"">>

\* {"text":<value>}, value being JSON text
TextPart(value) == <<"{">> \o Quoted(K_text) \o <<":">> \o value \o <<"}">>

\* {"<key>":<value>}
Wrap(key, value) == <<"{">> \o Quoted(key) \o <<":">> \o value \o <<"}">>

\* [<item>,<item>,...]
RECURSIVE Commas(_)
Commas(items) ==
    IF items = <<>> THEN <<>>
    ELSE IF Len(items) = 1 THEN items[1]
    ELSE items[1] \o <<",">> \o Commas(Tail(items))

ListOf(items) == <<"[">> \o Commas(items) \o <<"]">>

\* {"statusUpdate":{"status":{"message":{"content":<content>}}}}
StatusEnvelope(content) ==
    Wrap(K_statusUpdate, Wrap(K_status, Wrap(K_message, Wrap(K_content, content))))

\* {"content":<content>}
DirectEnvelope(content) == Wrap(K_content, content)

DataLine(payload) == DataPrefix \o payload

\* data: {"statusUpdate":{"status":{"message":{"content":[{"text":"a "}]}}}}
LineStatusA == DataLine(StatusEnvelope(ListOf(<<TextPart(Quoted(<<"a", " ">>))>>)))

\* data: {"statusUpdate":...{"content":[{"text":"b"},{"text":" "},{"text":"c"}]}...}
LineStatusBC ==
    DataLine(StatusEnvelope(ListOf(<<TextPart(Quoted(<<"b">>)),
                                     TextPart(Quoted(<<" ">>)),
                                     TextPart(Quoted(<<"c">>))>>)))

\* data: {"content":[{"text":" d"},{"text":7}]}
LineDirectD ==
    DataLine(DirectEnvelope(ListOf(<<TextPart(Quoted(<<" ", "d">>)),
                                     TextPart(<<"7">>)>>)))

\* data: {"content":[{"text":" "}]}
LineDirectBlank == DataLine(DirectEnvelope(ListOf(<<TextPart(Quoted(<<" ">>))>>)))

\* data: [DONE]
LineDone == DataLine(DoneMarker)

\* "data: " followed by one blank
LineBlank == DataLine(<<" ">>)

\* data:  [hi    (not JSON, not starting with a brace; blanks on both sides)
LinePlain == DataLine(<<" ", "[", "h", "i", " ">>)

\* data: {"text":"e"    (starts with a brace and is not JSON)
LineBroken == DataLine(<<"{">> \o Quoted(K_text) \o <<":">> \o Quoted(<<"e">>))

\* data:  {x    (a blank, then a brace: not JSON, and its trimmed form starts
\* with a brace)
LineBrokenBlank == DataLine(<<" ", "{", "x">>)

\* data:{"content":[{"text":"f"}]}    (no blank after the colon)
LineNoPrefix ==
    <<"d", "a", "t", "a", ":">>
        \o DirectEnvelope(ListOf(<<TextPart(Quoted(<<"f">>))>>))

\* data: {"statusUpdate":{},"content":[{"text":"g"}]}
LineStatusEmpty ==
    DataLine(<<"{">> \o Quoted(K_statusUpdate) \o <<":", "{", "}", ",">>
             \o Quoted(K_content) \o <<":">>
             \o ListOf(<<TextPart(Quoted(<<"g">>))>>) \o <<"}">>)

\* data: {"statusUpdate":5}
LineStatusInt == DataLine(Wrap(K_statusUpdate, <<"5">>))

\* data: 7
LineNumber == DataLine(<<"7">>)

\* data: {"statusUpdate":...{"content":{"text":"h"}}...}    (content is an object)
LineStatusDict == DataLine(StatusEnvelope(TextPart(Quoted(<<"h">>))))

\* data: {"statusUpdate":{"status":{"message":{"content":[{"text":"s"}]}}},"content":[{"text":"t"}]}
LineBothText ==
    DataLine(<<"{">> \o Quoted(K_statusUpdate) \o <<":">>
             \o Wrap(K_status, Wrap(K_message,
                    Wrap(K_content, ListOf(<<TextPart(Quoted(<<"s">>))>>))))
             \o <<",">> \o Quoted(K_content) \o <<":">>
             \o ListOf(<<TextPart(Quoted(<<"t">>))>>) \o <<"}">>)

\* data: {"statusUpdate":{}}
LineNoStatus == DataLine(Wrap(K_statusUpdate, <<"{", "}">>))

\* data: {"statusUpdate":{"status":{}}}
LineNoMessage == DataLine(Wrap(K_statusUpdate, Wrap(K_status, <<"{", "}">>)))

\* data: {"statusUpdate":{"status":{"message":{}}}}
LineNoContent ==
    DataLine(Wrap(K_statusUpdate, Wrap(K_status, Wrap(K_message, <<"{", "}">>))))

\* data: {"x":[{"text":"u"}]}    (an object with neither key)
LineUnknown == DataLine(Wrap(<<"x">>, ListOf(<<TextPart(Quoted(<<"u">>))>>)))

\* data: [{"text":"v"}]    (a list)
LineList == DataLine(ListOf(<<TextPart(Quoted(<<"v">>))>>))

\* data: "w"    (a string)
LineString == DataLine(Quoted(<<"w">>))

\* data: null
LineNull == DataLine(<<"n", "u", "l", "l">>)

\* The lines of a stream whose payloads are JSON of every shape.
ShapeLines ==
    {LineStatusA, LineBothText, LineStatusEmpty, LineNoStatus, LineNoMessage,
     LineNoContent, LineUnknown, LineList, LineString, LineNull, LineNumber,
     LineStatusInt}

\* The lines a stream of a single call is drawn from.
Lines ==
    {LineStatusA, LineStatusBC, LineDirectD, LineDirectBlank, LineDone, LineBlank, LinePlain,
     LineBroken, LineBrokenBlank, LineNoPrefix, LineStatusEmpty, LineStatusInt,
     LineNumber, LineStatusDict}

\* The lines a stream of a workflow stage is drawn from.
WorkflowLines == {LineStatusA, LineDone, LinePlain, LineStatusInt}

\* The lines a stage's stream is drawn from when what it hands to the next
\* stage is looked at: texts, blank texts, blank data lines.
HandoffLines == {LineStatusA, LineDirectBlank, LineBlank, LinePlain}

\* The most lines one stream delivers.
MaxLines == 3

\* resp.status_code
StatusCodes == {200, 399, 400, 503}

\* The characters of the modelled error bodies, by UTF-8 byte value.
AsciiChar(b) ==
    CASE b = 120 -> "x"
      [] b = 121 -> "y"
      [] b = 122 -> "z"

\* The two-byte characters of the modelled error bodies, by code point.
WideChar(cp) == CASE cp = 233 -> "U+00E9"

\* bytes.decode(): strict UTF-8 over one- and two-byte sequences; ok = FALSE
\* stands for UnicodeDecodeError.  A lead byte (0xC2..0xDF) is never a
\* continuation byte (0x80..0xBF), so the characters start at the bytes that
\* are not continuation bytes.
Utf8Decode(bytes) ==
    LET n        == Len(bytes)
        IsLead(b) == b \in 194..223
        IsCont(b) == b \in 128..191
        valid    == \A i \in 1..n :
                       \/ bytes[i] < 128
                       \/ IsLead(bytes[i]) /\ i < n /\ IsCont(bytes[i + 1])
                       \/ IsCont(bytes[i]) /\ i > 1 /\ IsLead(bytes[i - 1])
        starts   == SelectSeq([i \in 1..n |-> i], LAMBDA i : ~IsCont(bytes[i]))
        char(i)  == IF bytes[i] < 128 THEN AsciiChar(bytes[i])
                    ELSE WideChar((bytes[i] - 192) * 64 + (bytes[i + 1] - 128))
    IN IF valid
       THEN [ok |-> TRUE, str |-> [k \in 1..Len(starts) |-> char(starts[k])]]
       ELSE [ok |-> FALSE, str |-> <<>>]

\* How many characters of the error body the error message keeps.
ExcerptLimit == 500

BodyShort   == <<120, 121>>
BodyLong    == [i \in 1..(ExcerptLimit - 1) |-> 120] \o <<121, 122>>
BodyWide    == <<195, 169>> \o [i \in 1..(ExcerptLimit - 2) |-> 120] \o <<121, 122>>
BodyInvalid == <<120, 255>>

\* The error bodies resp.aread() returns.
Bodies == {BodyShort, BodyLong, BodyWide, BodyInvalid}

\* What the user types at the topic prompt.
UserInputs == {<<>>, <<" ", "a", "i", " ">>}

DefaultTopicSequential ==
    <<"T", "h", "e", " ", "f", "u", "t", "u", "r", "e", " ", "o", "f", " ",
      "s", "u", "s", "t", "a", "i", "n", "a", "b", "l", "e", " ", "e", "n",
      "e", "r", "g", "y", " ", "t", "e", "c", "h", "n", "o", "l", "o", "g",
      "i", "e", "s">>

DefaultTopicStreaming ==
    <<"L", "a", "t", "e", "s", "t", " ", "d", "e", "v", "e", "l", "o", "p",
      "m", "e", "n", "t", "s", " ", "i", "n", " ", "q", "u", "a", "n", "t",
      "u", "m", " ", "c", "o", "m", "p", "u", "t", "i", "n", "g">>

DefaultTopicDeepsearch ==
    <<"L", "a", "t", "e", "s", "t", " ", "t", "r", "e", "n", "d", "s", " ",
      "i", "n", " ", "a", "r", "t", "i", "f", "i", "c", "i", "a", "l", " ",
      "i", "n", "t", "e", "l", "l", "i", "g", "e", "n", "c", "e">>

\* The ports of the two agents' base URLs.
DeepSearchPort == 8003
BlogPostPort   == 8004

----------------------------------------------------------------------------
(* invoke_agent *)

NoOutcome ==
    [kind |-> "none", value |-> <<>>, exc |-> "", msg |-> "",
     status |-> 0, excerpt |-> <<>>]

\* return value
Returns(value) ==
    [kind |-> "return", value |-> value, exc |-> "", msg |-> "",
     status |-> 0, excerpt |-> <<>>]

\* raise exc; msg, status and excerpt are what the message of a plain
\* Exception is made of.
Raises(exc, msg, status, excerpt) ==
    [kind |-> "raise", value |-> <<>>, exc |-> exc, msg |-> msg,
     status |-> status, excerpt |-> excerpt]

\* A variant that takes every line, whole, as an event.
ReadsEveryLine(line) == [event |-> TRUE, data_str |-> line]

\* The reader's test of one line: whether it carries an event, and data_str.

SsePayload(line) ==
    IF StartsWith(line, DataPrefix)
    THEN LET data_str == Drop(line, 6) IN
         [event    |-> Strip(data_str) \notin {DoneMarker, <<>>},
          data_str |-> data_str]
    ELSE [event |-> FALSE, data_str |-> <<>>]

\* A variant that joins the chunks with a blank between them.
JoinedWithBlank(cs) ==
    Strip(Join([i \in 1..Len(cs) |-> IF i = 1 THEN cs[i] ELSE <<" ">> \o cs[i]]))

\* result = "".join(chunks).strip()
JoinedResult(cs) == Strip(Join(cs))

\* A variant that returns the result even when it is empty.
FinishAllowsEmpty(cs) == Returns(JoinedResult(cs))

\* The end of the with block after the loop: the result, or the error for an
\* empty one.

Finish(cs) ==
    LET result == JoinedResult(cs) IN
    IF result = <<>>
    THEN Raises("Exception", "No content received from agent", 0, <<>>)
    ELSE Returns(result)

\* A variant whose except clause catches every exception and returns what was
\* accumulated.
LeaveAlwaysSoft(exc, cs) ==
    IF cs # <<>> THEN Returns(JoinedResult(cs))
    ELSE Raises("Exception", "Stream error", 0, <<>>)

\* A variant whose except clause catches every error of the transport
\* (ReadTimeout and RemoteProtocolError as well as ReadError).
LeaveSoftOnTransport(exc, cs) ==
    IF exc \in {"ReadError", "ReadTimeout", "RemoteProtocolError"}
    THEN IF cs # <<>> THEN Returns(JoinedResult(cs))
         ELSE Raises("Exception", "Stream error", 0, <<>>)
    ELSE Raises(exc, "", 0, <<>>)

\* A variant whose except clause returns what was accumulated even when
\* nothing was.
LeaveSoftWhenEmpty(exc, cs) ==
    IF exc = "ReadError" THEN Returns(JoinedResult(cs))
    ELSE Raises(exc, "", 0, <<>>)

\* A variant whose except clause raises the stream error whatever was
\* accumulated.
LeaveNeverSoft(exc, cs) ==
    IF exc = "ReadError" THEN Raises("Exception", "Stream error", 0, <<>>)
    ELSE Raises(exc, "", 0, <<>>)

\* An exception leaving the try block: httpx.ReadError is caught by the
\* except clause, anything else propagates.

Leave(exc, cs) ==
    IF exc = "ReadError"
    THEN IF cs # <<>> THEN Returns(JoinedResult(cs))
         ELSE Raises("Exception", "Stream error", 0, <<>>)
    ELSE Raises(exc, "", 0, <<>>)

\* A variant that cuts the bytes, not the text: body[:500].decode()
ExcerptOfBytes(bytes) == Utf8Decode(Slice(bytes, ExcerptLimit)).str

\* body.decode()[:500] in the message of the HTTP error

Excerpt(bytes) == Slice(Utf8Decode(bytes).str, ExcerptLimit)

\* Whether the response is treated as an HTTP error.
IsHttpError(code) == code >= 400

\* The exceptions httpx raises while the request is sent and the response
\* headers are awaited, while the error body is read, and while lines are read.
OpenErrors   == {"ConnectError", "ReadError"}
BodyErrors   == {"ReadError", "ReadTimeout"}
StreamErrors == {"ReadError", "ReadTimeout"}

\* The same with a protocol error of the connection (httpx.RemoteProtocolError,
\* like ReadTimeout a TransportError that is no ReadError).
ConsumeErrors == StreamErrors \cup {"RemoteProtocolError"}

PostPath == "/v1/message:stream"
CardPath == "/.well-known/agent.json"

\* The agent a stage talks to.
AgentPort(st) == IF st = 1 THEN DeepSearchPort ELSE BlogPostPort

\* The JSON body of the POST.
MessagePayload(text) == [message |-> [content |-> <<[text |-> text]>>]]

\* A variant that passes the topic to every stage.
StageInputTopic == topic

\* The text the workflow passes to the stage's invoke_agent.
StageInput == IF stage = 1 THEN topic ELSE research_content

Settle(o, how) ==
    /\ outcome' = o
    /\ ending' = how
    /\ finalized' = finalized + 1
    /\ history' = Append(history, o)
    /\ pc' = IF o.kind = "return" THEN "returned" ELSE "raised"

\* invoke_agent is entered: the locals are set and the POST is sent.
Invoke ==
    /\ wpc = "invoke"
    /\ pc = "idle"
    /\ text_input' = StageInput
    /\ chunks' = <<>>
    /\ event_count' = 0
    /\ lines' = <<>>
    /\ payloads' = <<>>
    /\ status_code' = 0
    /\ body' = <<>>
    /\ outcome' = NoOutcome
    /\ ending' = ""
    /\ finalized' = 0
    /\ requests' = Append(requests,
                     [port |-> AgentPort(stage), method |-> "POST", path |-> PostPath,
                      json |-> <<MessagePayload(StageInput)>>])
    /\ pc' = "open"
    /\ wpc' = "await"
    /\ UNCHANGED <<serverVars, calls, agent_card, card_reply, mode, stage, history, topic, research_content, report>>

\* The response headers arrive.
Respond(code) ==
    /\ pc = "open"
    /\ status_code' = code
    /\ pc' = IF IsHttpError(code) THEN "errbody" ELSE "stream"
    /\ UNCHANGED <<serverVars, calls, agent_card, card_reply, mode, wpc, stage, text_input, body, lines, payloads,
                   event_count, chunks, ending, outcome, finalized, history,
                   requests, topic, research_content, report>>

\* The request fails before any response.
OpenFails(exc) ==
    /\ pc = "open"
    /\ Settle(Leave(exc, chunks), exc)
    /\ UNCHANGED <<serverVars, calls, agent_card, card_reply, mode, wpc, stage, text_input, status_code, body, lines,
                   payloads, event_count, chunks, requests, topic,
                   research_content, report>>

\* resp.aread() returns the error body: the HTTP error is raised, unless the
\* body does not decode.
ReadErrorBody(bytes) ==
    /\ pc = "errbody"
    /\ body' = bytes
    /\ IF Utf8Decode(bytes).ok
       THEN Settle(Raises("Exception", "Agent error: HTTP", status_code, Excerpt(bytes)),
                   "http_error")
       ELSE Settle(Leave("UnicodeDecodeError", chunks), "UnicodeDecodeError")
    /\ UNCHANGED <<serverVars, calls, agent_card, card_reply, mode, wpc, stage, text_input, status_code, lines, payloads,
                   event_count, chunks, requests, topic, research_content,
                   report>>

\* resp.aread() fails.
ErrorBodyFails(exc) ==
    /\ pc = "errbody"
    /\ Settle(Leave(exc, chunks), exc)
    /\ UNCHANGED <<serverVars, calls, agent_card, card_reply, mode, wpc, stage, text_input, status_code, body, lines,
                   payloads, event_count, chunks, requests, topic,
                   research_content, report>>

\* A line that is not an event: the loop goes on to the next line.
SkipLine ==
    UNCHANGED <<payloads, event_count, chunks, pc, ending, outcome, finalized,
                history>>

\* An event: the counter, the extraction, and the exception that escapes it.
HandleEvent(data_str) ==
    LET r == ExtractEvent(data_str, event_count + 1) IN
    /\ payloads' = Append(payloads, data_str)
    /\ event_count' = event_count + 1
    /\ chunks' = chunks \o r.texts
    /\ IF r.raised = ""
       THEN UNCHANGED <<pc, ending, outcome, finalized, history>>
       ELSE Settle(Leave(r.raised, chunks), r.raised)

\* A variant that leaves the loop at a [DONE] or blank data line.
ReadLineBreaksAtSentinel(line) ==
    /\ pc = "stream"
    /\ Len(lines) < MaxLines
    /\ lines' = Append(lines, line)
    /\ LET p == SsePayload(line) IN
       IF p.event THEN HandleEvent(p.data_str)
       ELSE IF StartsWith(line, DataPrefix)
       THEN /\ Settle(Finish(chunks), "break")
            /\ UNCHANGED <<payloads, event_count, chunks>>
       ELSE SkipLine
    /\ UNCHANGED <<serverVars, calls, agent_card, card_reply, mode, wpc, stage, text_input, status_code, body, requests,
                   topic, research_content, report>>

\* One pass of "async for line in resp.aiter_lines()".
ReadLine(line) ==
    /\ pc = "stream"
    /\ Len(lines) < MaxLines
    /\ lines' = Append(lines, line)
    /\ LET p == SsePayload(line) IN
       IF p.event THEN HandleEvent(p.data_str) ELSE SkipLine
    /\ UNCHANGED <<serverVars, calls, agent_card, card_reply, mode, wpc, stage, text_input, status_code, body, requests,
                   topic, research_content, report>>

\* The connection closes: the loop ends and the result is built.
StreamCloses ==
    /\ pc = "stream"
    /\ Settle(Finish(chunks), "closed")
    /\ UNCHANGED <<serverVars, calls, agent_card, card_reply, mode, wpc, stage, text_input, status_code, body, lines,
                   payloads, event_count, chunks, requests, topic,
                   research_content, report>>

\* Reading the next line fails.
StreamFails(exc) ==
    /\ pc = "stream"
    /\ Settle(Leave(exc, chunks), exc)
    /\ UNCHANGED <<serverVars, calls, agent_card, card_reply, mode, wpc, stage, text_input, status_code, body, lines,
                   payloads, event_count, chunks, requests, topic,
                   research_content, report>>

----------------------------------------------------------------------------
(* The entry points: test_deepsearch_a2a and the two workflows *)

DefaultTopic ==
    CASE mode = "sequential" -> DefaultTopicSequential
      [] mode = "streaming"  -> DefaultTopicStreaming
      [] mode = "deepsearch" -> DefaultTopicDeepsearch

\* Whether the entry point asks for the agent card before a stage's call.
Discovers == mode \in {"sequential", "deepsearch"}

\* The label the entry point prints before the error of a failed stage.
FailureLabel(st) ==
    IF mode = "deepsearch" THEN "Error"
    ELSE IF st = 1 THEN "Research failed" ELSE "Blog generation failed"

NoReport == [stage |-> 0, label |-> "", error |-> NoOutcome]

\* agent_card before discover_agent has returned.
NoCard == [fetched |-> FALSE, card |-> JNone]

\* topic = input(...).strip(), or the default topic when that is empty.
Start(raw) ==
    /\ wpc = "start"
    /\ topic' = IF Strip(raw) = <<>> THEN DefaultTopic ELSE Strip(raw)
    /\ stage' = 1
    /\ wpc' = IF Discovers THEN "discover" ELSE "invoke"
    /\ UNCHANGED <<serverVars, calls, agent_card, card_reply, mode, pc, text_input, status_code, body, lines, payloads,
                   event_count, chunks, ending, outcome, finalized, history, requests,
                   research_content, report>>

\* What the agent answers to the GET of its card: a transport error, or a
\* status code and a body.
CardReply(error, status, text) == [error |-> error, status |-> status, body |-> text]

NoReply == CardReply("", 0, <<>>)

\* {"name":"n"}
ReplyCard == CardReply("", 200, Wrap(<<"n", "a", "m", "e">>, Quoted(<<"n">>)))
\* [1]
ReplyList == CardReply("", 200, <<"[", "1", "]">>)
\* <html>
ReplyUndecodable == CardReply("", 200, <<"<", "h", "t", "m", "l", ">">>)
\* 404 with a JSON body
ReplyNotFound == CardReply("", 404, Wrap(<<"n", "a", "m", "e">>, Quoted(<<"n">>)))
\* 503 with an empty body
ReplyUnavailable == CardReply("", 503, <<>>)
ReplyRefused == CardReply("ConnectError", 0, <<>>)

\* The answers to the card request of a workflow stage.
DiscoverReplies ==
    {ReplyCard, ReplyList, ReplyUndecodable, ReplyNotFound, ReplyUnavailable,
     ReplyRefused}

\* response.raise_for_status() raises for a status outside 200..299.
IsSuccess(code) == code >= 200 /\ code < 300

\* A variant without the try/except: the exception leaves discover_agent.
DiscoverAgentUncaught(reply) ==
    IF reply.error # "" THEN [raised |-> reply.error, card |-> JNone]
    ELSE IF ~IsSuccess(reply.status) THEN [raised |-> "HTTPStatusError", card |-> JNone]
    ELSE LET r == JsonLoads(reply.body) IN
         IF r.ok THEN [raised |-> "", card |-> r.val]
         ELSE [raised |-> "JSONDecodeError", card |-> JNone]

\* discover_agent: the card the response holds, or {} when the GET, the status
\* check or response.json() raised; nothing is raised to the caller.
DiscoverAgent(reply) ==
    IF reply.error # "" THEN [raised |-> "", card |-> JDict(<<>>)]
    ELSE IF ~IsSuccess(reply.status) THEN [raised |-> "", card |-> JDict(<<>>)]
    ELSE LET r == JsonLoads(reply.body) IN
         IF r.ok THEN [raised |-> "", card |-> r.val]
         ELSE [raised |-> "", card |-> JDict(<<>>)]

\* agent_card = await client.discover_agent(), and the lines that print the
\* card: agent_card.get(...) raises AttributeError for a card that is true and
\* not a dict, outside any try block.
Discover(reply) ==
    /\ wpc = "discover"
    /\ requests' = Append(requests,
                     [port |-> AgentPort(stage), method |-> "GET", path |-> CardPath,
                      json |-> <<>>])
    /\ card_reply' = reply
    /\ LET found == DiscoverAgent(reply) IN
       /\ agent_card' = [fetched |-> TRUE, card |-> found.card]
       /\ wpc' = IF found.raised # "" THEN "crashed"
                 ELSE IF Truthy(found.card) /\ found.card.t # "dict" THEN "crashed"
                 ELSE "invoke"
    /\ UNCHANGED <<serverVars, calls, mode, stage, pc, text_input, status_code, body,
                   lines, payloads, event_count, chunks, ending, outcome, finalized,
                   history, topic, research_content, report>>

\* A variant that calls invoke_agent once more for a stage whose first call
\* failed.
StageFailedRetries ==
    /\ wpc = "await"
    /\ pc = "raised"
    /\ report' = [stage |-> stage, label |-> FailureLabel(stage), error |-> outcome]
    /\ IF Len(history) = stage
       THEN /\ wpc' = "invoke"
            /\ pc' = "idle"
       ELSE /\ wpc' = "done"
            /\ UNCHANGED pc
    /\ UNCHANGED <<serverVars, calls, agent_card, card_reply, mode, stage,
                   text_input, status_code, body, lines, payloads, event_count,
                   chunks, ending, outcome, finalized, history, requests, topic,
                   research_content>>

\* A variant that prints the failure of stage 1 and goes on to stage 2.
StageFailedGoesOn ==
    /\ wpc = "await"
    /\ pc = "raised"
    /\ report' = [stage |-> stage, label |-> FailureLabel(stage), error |-> outcome]
    /\ IF stage = 1 /\ mode # "deepsearch"
       THEN /\ stage' = 2
            /\ pc' = "idle"
            /\ wpc' = IF Discovers THEN "discover" ELSE "invoke"
       ELSE /\ wpc' = "done"
            /\ UNCHANGED <<stage, pc>>
    /\ UNCHANGED <<serverVars, calls, agent_card, card_reply, mode, text_input, status_code, body, lines, payloads,
                   event_count, chunks, ending, outcome, finalized, history,
                   requests, topic, research_content>>

\* The except clause around a stage's call: the failure is printed and the
\* entry point returns.
StageFailed ==
    /\ wpc = "await"
    /\ pc = "raised"
    /\ report' = [stage |-> stage, label |-> FailureLabel(stage), error |-> outcome]
    /\ wpc' = "done"
    /\ UNCHANGED <<serverVars, calls, agent_card, card_reply, mode, stage, pc, text_input, status_code, body, lines, payloads,
                   event_count, chunks, ending, outcome, finalized, history, requests,
                   topic, research_content>>

\* Stage 1 returned in a workflow: its result becomes research_content and
\* stage 2 follows (the streaming workflow stops on an empty result).
StageOneDone ==
    /\ wpc = "await"
    /\ pc = "returned"
    /\ mode \in {"sequential", "streaming"}
    /\ stage = 1
    /\ research_content' = outcome.value
    /\ IF mode = "streaming" /\ outcome.value = <<>>
       THEN /\ report' = [stage |-> 1, label |-> "No research content received",
                          error |-> NoOutcome]
            /\ wpc' = "done"
            /\ UNCHANGED <<stage, pc>>
       ELSE /\ stage' = 2
            /\ pc' = "idle"
            /\ wpc' = IF Discovers THEN "discover" ELSE "invoke"
            /\ UNCHANGED report
    /\ UNCHANGED <<serverVars, calls, agent_card, card_reply, mode, text_input, status_code, body, lines, payloads, event_count,
                   chunks, ending, outcome, finalized, history, requests, topic>>

\* The last call returned: its result is printed and the entry point ends.
LastStageDone ==
    /\ wpc = "await"
    /\ pc = "returned"
    /\ mode = "deepsearch" \/ stage = 2
    /\ report' = [stage |-> stage, label |-> "completed", error |-> NoOutcome]
    /\ wpc' = "done"
    /\ UNCHANGED <<serverVars, calls, agent_card, card_reply, mode, stage, pc, text_input, status_code, body, lines, payloads,
                   event_count, chunks, ending, outcome, finalized, history, requests,
                   topic, research_content>>

----------------------------------------------------------------------------
(* blogpost_server_a2a.py: parse_streaming_json *)

\* sub in s
Contains(s, sub) == \E i \in 1..Len(s) : MatchAt(s, i, sub)

\* The least element of a non-empty set of positions.
Least(S) == CHOOSE i \in S : \A j \in S : i <= j

\* s.split(sep) for a non-empty sep, scanning from position i: the occurrences
\* of sep are taken from the left and do not overlap.
RECURSIVE SplitFrom(_, _, _)
SplitFrom(s, i, sep) ==
    LET occ == {j \in i..Len(s) : MatchAt(s, j, sep)} IN
    IF occ = {} THEN <<SubSeq(s, i, Len(s))>>
    ELSE <<SubSeq(s, i, Least(occ) - 1)>> \o SplitFrom(s, Least(occ) + Len(sep), sep)

Split(s, sep) == SplitFrom(s, 1, sep)

\* sep.join(parts)
RECURSIVE JoinWith(_, _)
JoinWith(parts, sep) ==
    IF parts = <<>> THEN <<>>
    ELSE IF Len(parts) = 1 THEN parts[1]
    ELSE parts[1] \o sep \o JoinWith(Tail(parts), sep)

\* s.replace(old, new): the occurrences replaced are those split() cuts at.
Replace(s, old, new) == JoinWith(Split(s, old), new)

Boundary       == <<"}", "{">>
BoundaryMarked == <<"}", "|", "|", "|", "{">>
Separator      == <<"|", "|", "|">>

\* json_objects = research_content.replace("}{", "}|||{").split("|||")
JsonObjects(content) ==
    Split(Replace(content, Boundary, BoundaryMarked), Separator)

\* The loop over content_list in parse_streaming_json: every "text" of a dict
\* part is appended, as str, blank or not.
RECURSIVE ParsedPartTexts(_)
ParsedPartTexts(parts) ==
    IF parts = <<>> THEN <<>>
    ELSE LET part == Head(parts)
             rest == ParsedPartTexts(Tail(parts))
         IN IF part.t = "dict" /\ DictHas(part, K_text)
            THEN <<PyStr(DictGet(part, K_text))>> \o rest
            ELSE rest

\* Whether "x in data" and len(data) are defined for the value.
Sized(x) == x.t \in {"str", "list", "dict"}

\* The body of the loop for one json_str: the chunks it appends.  Every
\* exception is caught by "except (json.JSONDecodeError, Exception)" and the
\* object is skipped; raised names the exception for the record.
ObjectTexts(json_str) ==
    LET r == JsonLoads(json_str) IN
    IF ~r.ok THEN [raised |-> "JSONDecodeError", texts |-> <<>>]
    ELSE LET data == r.val IN
      IF ~Sized(data) THEN [raised |-> "TypeError", texts |-> <<>>]
      ELSE IF data.t = "dict" /\ DictHas(data, K_statusUpdate)
      THEN LET su == DictGet(data, K_statusUpdate) IN
        IF su.t # "dict" THEN [raised |-> "AttributeError", texts |-> <<>>]
        ELSE LET status == DictGetOr(su, K_status, JDict(<<>>)) IN
          IF status.t # "dict" THEN [raised |-> "AttributeError", texts |-> <<>>]
          ELSE LET msg == DictGetOr(status, K_message, JDict(<<>>)) IN
            IF msg.t # "dict" THEN [raised |-> "AttributeError", texts |-> <<>>]
            ELSE LET content_list == DictGetOr(msg, K_content, JList(<<>>)) IN
              IF ~Sized(content_list) THEN [raised |-> "TypeError", texts |-> <<>>]
              ELSE Extracted(ParsedPartTexts(IterParts(content_list)))
      ELSE Extracted(<<>>)

\* The characters \s matches in a str pattern, of the modelled characters.
RegexWhitespace == {" ", "\t", "\n", "\r", "\f"}

TextKey == <<"\"", "t", "e", "x", "t", "\"", ":">>

\* The match of "text":\s*"([^"]+)" that starts at position i, if any: the
\* key, blanks, a quote, one or more characters that are not quotes, a quote.
TextMatchAt(s, i) ==
    IF ~MatchAt(s, i, TextKey) THEN [ok |-> FALSE, value |-> <<>>, end |-> 0]
    ELSE LET first == i + Len(TextKey)
             open  == Least({k \in first..(Len(s) + 1) :
                                k = Len(s) + 1 \/ s[k] \notin RegexWhitespace})
             shut  == {k \in (open + 1)..Len(s) : s[k] = "\""}
         IN IF open <= Len(s) /\ s[open] = "\"" /\ shut # {} /\ Least(shut) > open + 1
            THEN [ok |-> TRUE, value |-> SubSeq(s, open + 1, Least(shut) - 1),
                  end |-> Least(shut)]
            ELSE [ok |-> FALSE, value |-> <<>>, end |-> 0]

\* re.findall(r'"text":\s*"([^"]+)"', s) from position i: the leftmost match,
\* then the matches after its end.
RECURSIVE FindTextsFrom(_, _)
FindTextsFrom(s, i) ==
    LET starts == {j \in i..Len(s) : TextMatchAt(s, j).ok} IN
    IF starts = {} THEN <<>>
    ELSE LET m == TextMatchAt(s, Least(starts)) IN
         <<m.value>> \o FindTextsFrom(s, m.end + 1)

FindTexts(s) == FindTextsFrom(s, 1)

\* The string returned when nothing could be extracted.
ErrorSentinel ==
    <<"E", "R", "R", "O", "R", ":", " ", "U", "n", "a", "b", "l", "e", " ",
      "t", "o", " ", "e", "x", "t", "r", "a", "c", "t", " ", "r", "e", "s",
      "e", "a", "r", "c", "h", " ", "c", "o", "n", "t", "e", "n", "t", " ",
      "f", "r", "o", "m", " ", "m", "e", "s", "s", "a", "g", "e", ".", " ",
      "P", "l", "e", "a", "s", "e", " ", "p", "r", "o", "v", "i", "d", "e",
      " ", "r", "e", "s", "e", "a", "r", "c", "h", " ", "t", "e", "x", "t",
      " ", "d", "i", "r", "e", "c", "t", "l", "y", ".">>

\* parse_streaming_json after its guard: the split, the loop over the objects
\* and the three ways to return.
ParseMarked(content) ==
    LET objects == JsonObjects(content)
        texts   == Join([i \in 1..Len(objects) |-> ObjectTexts(objects[i]).texts])
        found   == FindTexts(content)
    IN IF texts # <<>>
       THEN [route |-> "chunks", json_objects |-> objects,
             parsed_chunks |-> texts, text_matches |-> <<>>,
             result |-> Strip(Join(texts))]
       ELSE IF found # <<>>
       THEN [route |-> "regex", json_objects |-> objects,
             parsed_chunks |-> texts, text_matches |-> found,
             result |-> JoinWith(found, <<" ">>)]
       ELSE [route |-> "sentinel", json_objects |-> objects,
             parsed_chunks |-> texts, text_matches |-> found,
             result |-> ErrorSentinel]

\* parse_streaming_json: the value returned, with the locals it went through
\* and the return statement taken (route).
ParseStreamingJson(content) ==
    IF ~Contains(content, K_statusUpdate)
    THEN [route |-> "unchanged", json_objects |-> <<>>, parsed_chunks |-> <<>>,
          text_matches |-> <<>>, result |-> content]
    ELSE ParseMarked(content)

----------------------------------------------------------------------------
(* blogpost_server_a2a.py: blogpost_generator_agent and its inputs *)

\* {"statusUpdate":{"status":{"message":{"content":[{"text":"<text>"}]}}}}
EnvelopeOf(text) == StatusEnvelope(ListOf(<<TextPart(Quoted(text))>>))

\* The texts of the parts a message is made of.
PieceA          == EnvelopeOf(<<"a", " ">>)
PieceBC         == StatusEnvelope(ListOf(<<TextPart(Quoted(<<"b">>)),
                                           TextPart(Quoted(<<" ">>)),
                                           TextPart(Quoted(<<"c">>))>>))
PieceW          == EnvelopeOf(<<" ", "w">>)
PiecePipes      == EnvelopeOf(<<"p", "|", "|", "|", "q">>)
PieceBraces     == EnvelopeOf(<<"r", "}", "{", "s">>)
PieceEmptyText  == EnvelopeOf(<<>>)
PieceStatusInt  == Wrap(K_statusUpdate, <<"5">>)
\* {"statusUpdate":{"text": "e"    (cut short; a blank after the colon)
PieceBrokenText == <<"{">> \o Quoted(K_statusUpdate) \o <<":", "{">>
                       \o Quoted(K_text) \o <<":", " ">> \o Quoted(<<"e">>)
PieceMarkerWord == K_statusUpdate
PiecePlain      == <<"h", "i", " ">>
PieceDirectD    == DirectEnvelope(ListOf(<<TextPart(Quoted(<<"d">>))>>))

Pieces ==
    {PieceA, PieceBC, PieceW, PiecePipes, PieceBraces, PieceEmptyText,
     PieceStatusInt, PieceBrokenText, PieceMarkerWord, PiecePlain, PieceDirectD}

\* A part of a message: a text part, or a part of another kind, which has
\* neither text nor a content attribute.
TextPartOf(text) == [kind |-> "text", text |-> text]
FilePart         == [kind |-> "file", text |-> <<>>]

MessageParts == {TextPartOf(piece) : piece \in Pieces} \cup {FilePart}

\* The most parts a message has.
MaxParts == 2

Messages == UNION {[1..n -> MessageParts] : n \in 1..MaxParts}

\* The loop over message.parts: the texts of the text parts, concatenated.
MessageText(parts) ==
    Join([i \in 1..Len(parts) |->
            IF parts[i].kind = "text" THEN parts[i].text ELSE <<>>])

\* How many characters of the first line the topic keeps.
TopicLimit == 150

\* topic = lines[0].strip(), cut to 150 characters and "..." when longer
TopicOf(content) ==
    LET first == Strip(Split(content, <<"\n">>)[1]) IN
    IF Len(first) > TopicLimit
    THEN SubSeq(first, 1, TopicLimit) \o <<".", ".", ".">>
    ELSE first

NoState == [topic |-> <<>>, research_content |-> <<>>, built |-> FALSE]

\* The message arrives and its text is collected.
AgentReceives(parts) ==
    /\ mode = "blogpost_agent"
    /\ agent_pc = "idle"
    /\ agent_message' = parts
    /\ agent_content' = MessageText(parts)
    /\ agent_pc' = "received"
    /\ UNCHANGED <<mode, clientVars, calls, initial_state, parse_input, parse_pc,
                   json_objects, parse_idx, parsed_chunks, text_matches, parse_route,
                   parse_result>>

\* A variant that hands the content to the workflow as received.
AgentDetectsNothing ==
    /\ agent_pc = "received"
    /\ agent_pc' = "ready"
    /\ UNCHANGED <<mode, clientVars, calls, agent_message, agent_content,
                   initial_state, parse_input, parse_pc, json_objects, parse_idx,
                   parsed_chunks, text_matches, parse_route, parse_result>>

\* if "statusUpdate" in research_content: the call of parse_streaming_json
AgentDetects ==
    /\ agent_pc = "received"
    /\ IF Contains(agent_content, K_statusUpdate)
       THEN /\ parse_input' = agent_content
            /\ parse_pc' = "enter"
            /\ agent_pc' = "parsing"
       ELSE /\ agent_pc' = "ready"
            /\ UNCHANGED <<parse_input, parse_pc>>
    /\ UNCHANGED <<mode, clientVars, calls, agent_message, agent_content,
                   initial_state, json_objects, parse_idx, parsed_chunks, text_matches,
                   parse_route, parse_result>>

\* parse_streaming_json is called on its own.
ParseCalled(content) ==
    /\ mode = "parse_streaming_json"
    /\ parse_pc = "idle"
    /\ parse_input' = content
    /\ parse_pc' = "enter"
    /\ UNCHANGED <<mode, clientVars, calls, agent_message, agent_pc, agent_content,
                   initial_state, json_objects, parse_idx, parsed_chunks, text_matches,
                   parse_route, parse_result>>

\* A variant without the early return.
ParseEntersUnguarded ==
    /\ parse_pc = "enter"
    /\ json_objects' = JsonObjects(parse_input)
    /\ parse_idx' = 0
    /\ parsed_chunks' = <<>>
    /\ parse_pc' = "loop"
    /\ UNCHANGED <<parse_route, parse_result>>
    /\ UNCHANGED <<mode, clientVars, calls, agent_message, agent_pc, agent_content,
                   initial_state, parse_input, text_matches>>

\* The guard of parse_streaming_json, and the split into json_objects.
ParseEnters ==
    /\ parse_pc = "enter"
    /\ IF ~Contains(parse_input, K_statusUpdate)
       THEN /\ parse_result' = parse_input
            /\ parse_route' = "unchanged"
            /\ parse_pc' = "returned"
            /\ UNCHANGED <<json_objects, parse_idx, parsed_chunks>>
       ELSE /\ json_objects' = JsonObjects(parse_input)
            /\ parse_idx' = 0
            /\ parsed_chunks' = <<>>
            /\ parse_pc' = "loop"
            /\ UNCHANGED <<parse_route, parse_result>>
    /\ UNCHANGED <<mode, clientVars, calls, agent_message, agent_pc, agent_content,
                   initial_state, parse_input, text_matches>>

\* One pass of the loop over json_objects.
ParseObject ==
    /\ parse_pc = "loop"
    /\ parse_idx < Len(json_objects)
    /\ parsed_chunks' = parsed_chunks \o ObjectTexts(json_objects[parse_idx + 1]).texts
    /\ parse_idx' = parse_idx + 1
    /\ UNCHANGED <<mode, clientVars, calls, agent_message, agent_pc, agent_content,
                   initial_state, parse_input, parse_pc, json_objects, text_matches,
                   parse_route, parse_result>>

\* A variant that falls back when the joined chunks are blank.
ParseReturnsNonBlank ==
    /\ parse_pc = "loop"
    /\ parse_idx = Len(json_objects)
    /\ IF Strip(Join(parsed_chunks)) # <<>>
       THEN /\ parse_result' = Strip(Join(parsed_chunks))
            /\ parse_route' = "chunks"
            /\ UNCHANGED text_matches
       ELSE /\ text_matches' = FindTexts(parse_input)
            /\ IF text_matches' # <<>>
               THEN /\ parse_result' = JoinWith(text_matches', <<" ">>)
                    /\ parse_route' = "regex"
               ELSE /\ parse_result' = ErrorSentinel
                    /\ parse_route' = "sentinel"
    /\ parse_pc' = "returned"
    /\ UNCHANGED <<mode, clientVars, calls, agent_message, agent_pc, agent_content,
                   initial_state, parse_input, json_objects, parse_idx, parsed_chunks>>

\* After the loop: the joined chunks, or the regular-expression scan of the
\* whole argument, or the error string.
ParseReturns ==
    /\ parse_pc = "loop"
    /\ parse_idx = Len(json_objects)
    /\ IF parsed_chunks # <<>>
       THEN /\ parse_result' = Strip(Join(parsed_chunks))
            /\ parse_route' = "chunks"
            /\ UNCHANGED text_matches
       ELSE /\ text_matches' = FindTexts(parse_input)
            /\ IF text_matches' # <<>>
               THEN /\ parse_result' = JoinWith(text_matches', <<" ">>)
                    /\ parse_route' = "regex"
               ELSE /\ parse_result' = ErrorSentinel
                    /\ parse_route' = "sentinel"
    /\ parse_pc' = "returned"
    /\ UNCHANGED <<mode, clientVars, calls, agent_message, agent_pc, agent_content,
                   initial_state, parse_input, json_objects, parse_idx, parsed_chunks>>

\* research_content = parse_streaming_json(research_content)
AgentResumes ==
    /\ agent_pc = "parsing"
    /\ parse_pc = "returned"
    /\ agent_content' = parse_result
    /\ agent_pc' = "ready"
    /\ UNCHANGED <<mode, clientVars, calls, agent_message, initial_state,
                   parse_input, parse_pc, json_objects, parse_idx, parsed_chunks,
                   text_matches, parse_route, parse_result>>

\* The BlogState is built and blog_workflow.invoke is called with it.
AgentInvokesWorkflow ==
    /\ agent_pc = "ready"
    /\ initial_state' = [topic |-> TopicOf(agent_content),
                         research_content |-> agent_content, built |-> TRUE]
    /\ agent_pc' = "workflow"
    /\ UNCHANGED <<mode, clientVars, calls, agent_message, agent_content,
                   parse_input, parse_pc, json_objects, parse_idx, parsed_chunks,
                   text_matches, parse_route, parse_result>>

----------------------------------------------------------------------------
(* How the other agent handlers read the text of a message *)

\* deepsearch_agent_handler: query = root.text is assigned, not appended, for
\* every text part the loop meets, so the last one stays.
DeepsearchQuery(parts) ==
    LET texts == {i \in 1..Len(parts) : parts[i].kind = "text"} IN
    IF texts = {} THEN <<>>
    ELSE parts[CHOOSE i \in texts : \A j \in texts : j <= i].text

NoQueryFound ==
    <<"N", "o", " ", "q", "u", "e", "r", "y", " ", "f", "o", "u", "n", "d", " ",
      "i", "n", " ", "m", "e", "s", "s", "a", "g", "e">>

\* extract_query_from_message: the return inside the loop, at the first part
\* that has a text and whose text is not empty.
ExtractQueryFromMessage(parts) ==
    LET texts == {i \in 1..Len(parts) :
                    parts[i].kind = "text" /\ parts[i].text # <<>>} IN
    IF texts = {} THEN NoQueryFound
    ELSE parts[CHOOSE i \in texts : \A j \in texts : i <= j].text

\* The message arrives at deepsearch_agent_handler.
DeepsearchReceives(parts) ==
    /\ mode = "deepsearch_agent_handler"
    /\ agent_pc = "idle"
    /\ agent_message' = parts
    /\ agent_content' = DeepsearchQuery(parts)
    /\ agent_pc' = "received"
    /\ UNCHANGED <<mode, clientVars, calls, initial_state, parse_input, parse_pc,
                   json_objects, parse_idx, parsed_chunks, text_matches, parse_route,
                   parse_result>>

\* The message arrives at a handler that calls extract_query_from_message.
EnhancedReceives(parts) ==
    /\ mode = "extract_query_from_message"
    /\ agent_pc = "idle"
    /\ agent_message' = parts
    /\ agent_content' = ExtractQueryFromMessage(parts)
    /\ agent_pc' = "received"
    /\ UNCHANGED <<mode, clientVars, calls, initial_state, parse_input, parse_pc,
                   json_objects, parse_idx, parsed_chunks, text_matches, parse_route,
                   parse_result>>

----------------------------------------------------------------------------
(* The other orchestrators: BeeAIPlatformIntegration.orchestrate_workflow   *)
(* and SimpleA2ADemo.run_complete_workflow                                  *)

\* The agents of the steps of workflow_config, in order.
WorkflowSteps == <<"deepsearch_agent", "blogpost_agent">>

\* The agents of SimpleA2ADemo: research first, blog generation second.
DemoAgents == <<"deepsearch", "blogpost">>

\* What one POST to an agent can come to: status 200, another status, an
\* exception of the HTTP client.
PostOutcomes == {"ok", "error status", "exception"}

\* The untouched variables of the steps of an orchestrator.
OrchestratorFrame ==
    UNCHANGED <<mode, serverVars, calls, pc, text_input, status_code, body, lines,
                payloads, event_count, chunks, ending, outcome, finalized, topic,
                research_content, agent_card, card_reply>>

PlatformGet(step, path) ==
    [step |-> step, method |-> "GET", path |-> path]

StepPost(step) == [step |-> step, method |-> "POST", path |-> PostPath]

\* agents = await self.discover_agents(); "if not agents" ends the workflow.
OrchestrateDiscovers(found) ==
    /\ mode = "orchestrate_workflow"
    /\ wpc = "start"
    /\ requests' = Append(requests, PlatformGet(0, "/v1/agents"))
    /\ IF found
       THEN /\ stage' = 1
            /\ wpc' = "step"
            /\ UNCHANGED report
       ELSE /\ report' = [stage |-> 0, label |-> "No agents available",
                          error |-> NoOutcome]
            /\ wpc' = "done"
            /\ UNCHANGED stage
    /\ UNCHANGED history
    /\ OrchestratorFrame

\* The chunks response.aiter_text() delivers to send_message:
\* {"content":"c"}, {"status":"s"}, hi, one blank, 7
ChunkContent == Wrap(K_content, Quoted(<<"c">>))
ChunkStatus  == Wrap(K_status, Quoted(<<"s">>))
ChunkPlain   == <<"h", "i">>
ChunkBlank   == <<" ">>
ChunkNumber  == <<"7">>

StreamChunks == {ChunkContent, ChunkStatus, ChunkPlain, ChunkBlank, ChunkNumber}

StatusLabel == <<"S", "t", "a", "t", "u", "s", ":", " ">>

\* "key in data" for the values json.loads builds; TypeError for a value that
\* is no container.
KeyIn(key, data) ==
    CASE data.t = "dict" -> DictHas(data, key)
      [] data.t = "list" -> \E i \in 1..Len(data.v) : data.v[i] = JStr(key)
      [] data.t = "str"  -> Contains(data.v, key)

\* What send_message yields for one chunk of a 200 response: nothing for a
\* blank chunk, data["content"], "Status: ..." or the chunk itself when it is
\* not JSON; an exception other than JSONDecodeError leaves the loop.
SendMessageYields(chunk) ==
    IF Strip(chunk) = <<>> THEN [raised |-> "", out |-> <<>>]
    ELSE LET r == JsonLoads(chunk) IN
      IF ~r.ok THEN [raised |-> "", out |-> <<JStr(chunk)>>]
      ELSE LET data == r.val IN
        IF ~Iterable(data) THEN [raised |-> "TypeError", out |-> <<>>]
        ELSE IF KeyIn(K_content, data)
        THEN IF data.t = "dict"
             THEN [raised |-> "", out |-> <<DictGet(data, K_content)>>]
             ELSE [raised |-> "TypeError", out |-> <<>>]
        ELSE IF KeyIn(K_status, data)
        THEN IF data.t = "dict"
             THEN [raised |-> "",
                   out |-> <<JStr(StatusLabel \o PyStr(DictGet(data, K_status)))>>]
             ELSE [raised |-> "TypeError", out |-> <<>>]
        ELSE [raised |-> "", out |-> <<>>]

\* The end of one pass of the loop over workflow_steps: whatever send_message
\* yielded (the agent's output, or one line that starts with the cross mark)
\* goes into context, and the loop goes to the next step.
StepRecorded(how, step_output) ==
    /\ history' = Append(history,
                     [step |-> stage, agent |-> WorkflowSteps[stage], how |-> how,
                      output |-> step_output])
    /\ IF stage < Len(WorkflowSteps)
       THEN stage' = stage + 1 /\ wpc' = "step"
       ELSE wpc' = "finish" /\ UNCHANGED stage
    /\ lines' = <<>>
    /\ chunks' = <<>>
    /\ UNCHANGED report

\* The untouched variables of the steps of send_message.
SendFrame ==
    UNCHANGED <<mode, serverVars, calls, pc, text_input, status_code, body,
                payloads, event_count, ending, outcome, finalized, topic,
                research_content, agent_card, card_reply>>

\* send_message: endpoint = await self.get_agent_endpoint(agent_name)
OrchestrateLooksUp(endpoint) ==
    /\ mode = "orchestrate_workflow"
    /\ wpc = "step"
    /\ requests' = Append(requests, PlatformGet(stage, "/v1/agents/{agent_name}"))
    /\ IF endpoint
       THEN /\ wpc' = "post"
            /\ UNCHANGED <<stage, history, report, lines, chunks>>
       ELSE StepRecorded("no endpoint", <<>>)
    /\ SendFrame

\* send_message: the POST to {endpoint}/v1/message:stream and its status
OrchestratePosts(post) ==
    /\ mode = "orchestrate_workflow"
    /\ wpc = "post"
    /\ requests' = Append(requests, StepPost(stage))
    /\ IF post = "ok"
       THEN /\ wpc' = "stream"
            /\ UNCHANGED <<stage, history, report, lines, chunks>>
       ELSE StepRecorded(post, <<>>)
    /\ SendFrame

\* send_message: one pass of "async for chunk in response.aiter_text()"
OrchestrateReadsChunk(chunk) ==
    /\ mode = "orchestrate_workflow"
    /\ wpc = "stream"
    /\ Len(lines) < MaxLines
    /\ LET y == SendMessageYields(chunk) IN
       IF y.raised = ""
       THEN /\ lines' = Append(lines, chunk)
            /\ chunks' = chunks \o y.out
            /\ UNCHANGED <<wpc, stage, history, report>>
       ELSE StepRecorded("exception", chunks)
    /\ UNCHANGED requests
    /\ SendFrame

\* send_message: the stream ends, or reading it raises
OrchestrateStreamEnds(failed) ==
    /\ mode = "orchestrate_workflow"
    /\ wpc = "stream"
    /\ StepRecorded(IF failed THEN "exception" ELSE "ok", chunks)
    /\ UNCHANGED requests
    /\ SendFrame

\* After the loop: yield "Workflow completed successfully!"
OrchestrateCompletes ==
    /\ mode = "orchestrate_workflow"
    /\ wpc = "finish"
    /\ report' = [stage |-> stage, label |-> "Workflow completed successfully!",
                  error |-> NoOutcome]
    /\ wpc' = "done"
    /\ UNCHANGED <<stage, history, requests>>
    /\ OrchestratorFrame

\* run_complete_workflow checks both agents and returns when neither runs.
DemoChecksAgents(deepsearch_running, blogpost_running) ==
    /\ mode = "run_complete_workflow"
    /\ wpc = "start"
    /\ requests' = requests \o <<PlatformGet(0, "/health"), PlatformGet(0, "/health")>>
    /\ IF ~deepsearch_running /\ ~blogpost_running
       THEN /\ report' = [stage |-> 0, label |-> "No agents are running!",
                          error |-> NoOutcome]
            /\ wpc' = "done"
            /\ UNCHANGED stage
       ELSE /\ stage' = 1
            /\ wpc' = "step"
            /\ UNCHANGED report
    /\ UNCHANGED history
    /\ OrchestratorFrame

\* run_research_workflow, then run_blog_generation_workflow: the agent's
\* status is checked again; when it runs the fixed query is posted and the
\* response text or the "Error: ..." text is stored in self.results, and when
\* it does not the "not available" text is stored.
DemoStep(running, post) ==
    /\ mode = "run_complete_workflow"
    /\ wpc = "step"
    /\ requests' = requests
           \o <<PlatformGet(stage, "/health")>>
           \o (IF running THEN <<StepPost(stage)>> ELSE <<>>)
    /\ history' = Append(history,
                     [step |-> stage, agent |-> DemoAgents[stage],
                      how |-> IF running THEN post ELSE "not available"])
    /\ IF stage < Len(DemoAgents)
       THEN stage' = stage + 1 /\ UNCHANGED wpc
       ELSE wpc' = "finish" /\ UNCHANGED stage
    /\ UNCHANGED report
    /\ OrchestratorFrame

\* The summary: both keys are in self.results, so both lines read
\* "Completed", under "A2A Workflow Demo Completed!".
DemoSummary ==
    /\ mode = "run_complete_workflow"
    /\ wpc = "finish"
    /\ report' = [stage |-> stage, label |-> "A2A Workflow Demo Completed!",
                  error |-> NoOutcome]
    /\ wpc' = "done"
    /\ UNCHANGED <<stage, history, requests>>
    /\ OrchestratorFrame

----------------------------------------------------------------------------
(* invoke_agent calls that run as concurrent tasks *)

\* The tasks, and the A2AClient objects they call invoke_agent on.
CallIds   == {1, 2}
ClientIds == {1, 2}

\* The lines the stream of a task is drawn from, and the most lines it has.
TaskLines    == {LineStatusA, LineDirectD, LineDone, LineBroken, LineStatusInt}
MaxTaskLines == 2

\* The error bodies and the status codes of a task's response.
TaskBodies      == {BodyShort, BodyInvalid}
TaskStatusCodes == {200, 503}

\* The frame of one call: self and the locals of invoke_agent.
IdleCall(client) ==
    [client |-> client, pc |-> "idle", status_code |-> 0, lines |-> <<>>,
     event_count |-> 0, chunks |-> <<>>, ending |-> "", outcome |-> NoOutcome]

\* The call returns or raises.
Ended(call, o, how) ==
    [call EXCEPT !.outcome = o, !.ending = how,
                 !.pc = IF o.kind = "return" THEN "returned" ELSE "raised"]

\* One pass of the loop over the lines, in the frame of one call.
AfterLine(call, line) ==
    LET p    == SsePayload(line)
        read == [call EXCEPT !.lines = Append(@, line)]
    IN IF ~p.event THEN read
       ELSE LET r     == ExtractEvent(p.data_str, call.event_count + 1)
                taken == [read EXCEPT !.event_count = @ + 1,
                                      !.chunks = @ \o r.texts]
            IN IF r.raised = "" THEN taken
               ELSE Ended(taken, Leave(r.raised, call.chunks), r.raised)

\* invoke_agent is entered: chunks = [], event_count = 0, and the POST is sent.
TaskStarts(c) ==
    /\ calls[c].pc = "idle"
    /\ calls' = [calls EXCEPT ![c].pc = "open", ![c].chunks = <<>>,
                              ![c].event_count = 0]
    /\ UNCHANGED <<mode, clientVars, serverVars>>

\* The response headers arrive.
TaskResponds(c, code) ==
    /\ calls[c].pc = "open"
    /\ calls' = [calls EXCEPT ![c].status_code = code,
                              ![c].pc = IF IsHttpError(code) THEN "errbody"
                                        ELSE "stream"]
    /\ UNCHANGED <<mode, clientVars, serverVars>>

\* resp.aread() returns the error body.
TaskReadsErrorBody(c, bytes) ==
    /\ calls[c].pc = "errbody"
    /\ calls' = [calls EXCEPT ![c] =
                   IF Utf8Decode(bytes).ok
                   THEN Ended(@, Raises("Exception", "Agent error: HTTP",
                                        @.status_code, Excerpt(bytes)),
                              "http_error")
                   ELSE Ended(@, Leave("UnicodeDecodeError", @.chunks),
                              "UnicodeDecodeError")]
    /\ UNCHANGED <<mode, clientVars, serverVars>>

\* A variant whose chunks belong to the client object: the texts of a line are
\* appended for every call that runs on the same object.
TaskReadsLineShared(c, line) ==
    /\ calls[c].pc = "stream"
    /\ Len(calls[c].lines) < MaxTaskLines
    /\ calls' = [d \in CallIds |->
                   IF d = c THEN AfterLine(calls[c], line)
                   ELSE IF calls[d].client = calls[c].client
                   THEN [calls[d] EXCEPT !.chunks =
                            @ \o SubSeq(AfterLine(calls[c], line).chunks,
                                        Len(calls[c].chunks) + 1,
                                        Len(AfterLine(calls[c], line).chunks))]
                   ELSE calls[d]]
    /\ UNCHANGED <<mode, clientVars, serverVars>>

\* The task's stream delivers a line.
TaskReadsLine(c, line) ==
    /\ calls[c].pc = "stream"
    /\ Len(calls[c].lines) < MaxTaskLines
    /\ calls' = [calls EXCEPT ![c] = AfterLine(@, line)]
    /\ UNCHANGED <<mode, clientVars, serverVars>>

\* The task's connection closes.
TaskStreamCloses(c) ==
    /\ calls[c].pc = "stream"
    /\ calls' = [calls EXCEPT ![c] = Ended(@, Finish(@.chunks), "closed")]
    /\ UNCHANGED <<mode, clientVars, serverVars>>

\* The await the task is suspended at raises a transport error.
TaskAwaitFails(c, exc) ==
    /\ calls[c].pc \in {"open", "errbody", "stream"}
    /\ calls' = [calls EXCEPT ![c] = Ended(@, Leave(exc, @.chunks), exc)]
    /\ UNCHANGED <<mode, clientVars, serverVars>>

\* The task is cancelled: asyncio.CancelledError is raised at the await it is
\* suspended at.
TaskCancelled(c) ==
    /\ calls[c].pc \in {"open", "errbody", "stream"}
    /\ calls' = [calls EXCEPT ![c] =
                   Ended(@, Leave("CancelledError", @.chunks), "cancelled")]
    /\ UNCHANGED <<mode, clientVars, serverVars>>

----------------------------------------------------------------------------
(* Specifications *)

InitCommon ==
    /\ wpc = "start"
    /\ stage = 0
    /\ pc = "idle"
    /\ text_input = <<>>
    /\ status_code = 0
    /\ body = <<>>
    /\ lines = <<>>
    /\ payloads = <<>>
    /\ event_count = 0
    /\ chunks = <<>>
    /\ ending = ""
    /\ outcome = NoOutcome
    /\ finalized = 0
    /\ history = <<>>
    /\ requests = <<>>
    /\ topic = <<>>
    /\ research_content = <<>>
    /\ report = NoReport
    /\ agent_card = NoCard
    /\ card_reply = NoReply

\* The blog post agent has received nothing and parse_streaming_json has not
\* been called.
InitServer ==
    /\ agent_message = <<>>
    /\ agent_pc = "idle"
    /\ agent_content = <<>>
    /\ initial_state = NoState
    /\ parse_input = <<>>
    /\ parse_pc = "idle"
    /\ json_objects = <<>>
    /\ parse_idx = 0
    /\ parsed_chunks = <<>>
    /\ text_matches = <<>>
    /\ parse_route = ""
    /\ parse_result = <<>>

\* No invoke_agent call runs as a task.
InitCalls == calls = <<>>

\* python agentic_client_a2a.py deepsearch: one invoke_agent call, to an agent
\* that serves its card
Init == mode = "deepsearch" /\ InitCommon /\ InitServer /\ InitCalls

Next ==
    \/ \E raw \in UserInputs : Start(raw)
    \/ Discover(ReplyCard)
    \/ Invoke
    \/ \E code \in StatusCodes : Respond(code)
    \/ \E exc \in OpenErrors : OpenFails(exc)
    \/ \E bytes \in Bodies : ReadErrorBody(bytes)
    \/ \E exc \in BodyErrors : ErrorBodyFails(exc)
    \/ \E line \in Lines : ReadLine(line)
    \/ StreamCloses
    \/ \E exc \in StreamErrors : StreamFails(exc)
    \/ StageFailed
    \/ LastStageDone

Spec == Init /\ [][Next]_vars

\* python agentic_client_a2a.py sequential | streaming: the two-stage workflows
InitWorkflow ==
    mode \in {"sequential", "streaming"} /\ InitCommon /\ InitServer /\ InitCalls

NextWorkflow ==
    \/ \E raw \in UserInputs : Start(raw)
    \/ \E reply \in DiscoverReplies : Discover(reply)
    \/ Invoke
    \/ \E code \in StatusCodes : Respond(code)
    \/ \E exc \in OpenErrors : OpenFails(exc)
    \/ \E bytes \in Bodies : ReadErrorBody(bytes)
    \/ \E exc \in BodyErrors : ErrorBodyFails(exc)
    \/ \E line \in WorkflowLines : ReadLine(line)
    \/ StreamCloses
    \/ \E exc \in StreamErrors : StreamFails(exc)
    \/ StageFailed
    \/ StageOneDone
    \/ LastStageDone

SpecWorkflow == InitWorkflow /\ [][NextWorkflow]_vars

\* The blog post agent handling one message, and parse_streaming_json applied
\* on its own to the text of one message
InitServing ==
    mode \in {"blogpost_agent", "parse_streaming_json"}
        /\ InitCommon /\ InitServer /\ InitCalls

NextServing ==
    \/ \E parts \in Messages : AgentReceives(parts)
    \/ AgentDetects
    \/ \E parts \in Messages : ParseCalled(MessageText(parts))
    \/ ParseEnters
    \/ ParseObject
    \/ ParseReturns
    \/ AgentResumes
    \/ AgentInvokesWorkflow

SpecServing == InitServing /\ [][NextServing]_vars

\* Two tasks, each awaiting one invoke_agent call, on one A2AClient object or
\* on two
InitTasks ==
    /\ mode = "tasks"
    /\ InitCommon
    /\ InitServer
    /\ \E client \in ClientIds :
          calls = [c \in CallIds |-> IdleCall(IF c = 1 THEN 1 ELSE client)]

NextTasks ==
    \E c \in CallIds :
        \/ TaskStarts(c)
        \/ \E code \in TaskStatusCodes : TaskResponds(c, code)
        \/ \E bytes \in TaskBodies : TaskReadsErrorBody(c, bytes)
        \/ \E line \in TaskLines : TaskReadsLine(c, line)
        \/ TaskStreamCloses(c)
        \/ \E exc \in StreamErrors : TaskAwaitFails(c, exc)
        \/ TaskCancelled(c)

SpecTasks == InitTasks /\ [][NextTasks]_vars

\* One message handed to each of the three handlers that read message.parts
InitHandlers ==
    mode \in {"deepsearch_agent_handler", "blogpost_agent",
              "extract_query_from_message"}
        /\ InitCommon /\ InitServer /\ InitCalls

NextHandlers ==
    \/ \E parts \in Messages : DeepsearchReceives(parts)
    \/ \E parts \in Messages : AgentReceives(parts)
    \/ \E parts \in Messages : EnhancedReceives(parts)

SpecHandlers == InitHandlers /\ [][NextHandlers]_vars

\* One invoke_agent call whose stream is answered with 200 and carries JSON
\* payloads of every shape
NextShapes ==
    \/ \E raw \in UserInputs : Start(raw)
    \/ Discover(ReplyCard)
    \/ Invoke
    \/ Respond(200)
    \/ \E line \in ShapeLines : ReadLine(line)
    \/ StreamCloses
    \/ \E exc \in ConsumeErrors : StreamFails(exc)
    \/ StageFailed
    \/ LastStageDone

SpecShapes == Init /\ [][NextShapes]_vars

\* One run of orchestrate_workflow on the two-step configuration, and one
\* run of run_complete_workflow
InitOrchestrators ==
    mode \in {"orchestrate_workflow", "run_complete_workflow"}
        /\ InitCommon /\ InitServer /\ InitCalls

NextOrchestrators ==
    \/ \E found \in BOOLEAN : OrchestrateDiscovers(found)
    \/ \E endpoint \in BOOLEAN : OrchestrateLooksUp(endpoint)
    \/ \E post \in PostOutcomes : OrchestratePosts(post)
    \/ \E chunk \in StreamChunks : OrchestrateReadsChunk(chunk)
    \/ \E failed \in BOOLEAN : OrchestrateStreamEnds(failed)
    \/ OrchestrateCompletes
    \/ \E d \in BOOLEAN, b \in BOOLEAN : DemoChecksAgents(d, b)
    \/ \E running \in BOOLEAN, post \in PostOutcomes : DemoStep(running, post)
    \/ DemoSummary

SpecOrchestrators == InitOrchestrators /\ [][NextOrchestrators]_vars

\* The two-stage workflows with every stage answered with 200, over streams
\* that carry blank texts
NextHandoff ==
    \/ \E raw \in UserInputs : Start(raw)
    \/ Discover(ReplyCard)
    \/ Invoke
    \/ Respond(200)
    \/ \E line \in HandoffLines : ReadLine(line)
    \/ StreamCloses
    \/ \E exc \in StreamErrors : StreamFails(exc)
    \/ StageFailed
    \/ StageOneDone
    \/ LastStageDone

SpecHandoff == InitWorkflow /\ [][NextHandoff]_vars

----------------------------------------------------------------------------
(* What the modelled streams carry, stated from the wire format alone *)

\* The texts a line carries for the extraction rules: the text values of the
\* content elements of a status or direct envelope, the payload of a line of
\* plain text, nothing for any other line.
Carried(line) ==
    CASE line = LineStatusA     -> << <<"a", " ">> >>
      [] line = LineStatusBC    -> << <<"b">>, <<" ">>, <<"c">> >>
      [] line = LineDirectD     -> << <<" ", "d">>, <<"7">> >>
      [] line = LineDirectBlank -> << <<" ">> >>
      [] line = LinePlain       -> << <<" ", "[", "h", "i", " ">> >>
      [] OTHER                  -> <<>>

NonBlank(text) == \E i \in 1..Len(text) : text[i] \notin {" ", "\t"}

\* The fragments of the lines ls, in arrival order: the carried texts that are
\* not blank.
Fragments(ls) ==
    SelectSeq(Join([i \in 1..Len(ls) |-> Carried(ls[i])]), NonBlank)

\* A keepalive: "data: [DONE]" or a "data: " line with nothing but blanks.
IsKeepalive(line) == line \in {LineDone, LineBlank}

\* The lines that are events for the reader: the prefix, and a remainder that
\* is neither blank nor [DONE].
IsEvent(line) ==
    /\ Len(line) >= Len(DataPrefix)
    /\ SubSeq(line, 1, Len(DataPrefix)) = DataPrefix
    /\ LET rest == SubSeq(line, Len(DataPrefix) + 1, Len(line)) IN
       /\ NonBlank(rest)
       /\ Strip(rest) # DoneMarker

Remainder(line) == SubSeq(line, Len(DataPrefix) + 1, Len(line))

\* The text of the modelled error bodies.
BodyText(bytes) ==
    CASE bytes = BodyShort -> <<"x", "y">>
      [] bytes = BodyLong  -> [i \in 1..(ExcerptLimit + 1) |->
                                  IF i < ExcerptLimit THEN "x"
                                  ELSE IF i = ExcerptLimit THEN "y" ELSE "z"]
      [] bytes = BodyWide  -> [i \in 1..(ExcerptLimit + 1) |->
                                  IF i = 1 THEN "U+00E9"
                                  ELSE IF i < ExcerptLimit THEN "x"
                                  ELSE IF i = ExcerptLimit THEN "y" ELSE "z"]

Settled == pc \in {"returned", "raised"}

ExtractionErrors == {"AttributeError", "TypeError", "KeyError"}

----------------------------------------------------------------------------
(* Claims *)

\* C1: when a read error ends the call, invoke_agent returns the trimmed
\* concatenation of the fragments received so far if there is at least one,
\* and raises the stream error if there is none.
C1_SoftCompletion ==
    ending = "ReadError" =>
        IF Fragments(lines) # <<>>
        THEN outcome = Returns(Strip(Join(Fragments(lines))))
        ELSE /\ outcome.kind = "raise"
             /\ outcome.exc = "Exception"
             /\ outcome.msg = "Stream error"

\* A read error after the one fragment "a " gave the result "a".
C1_Witness ==
    /\ ending = "ReadError"
    /\ lines = <<LineStatusA>>
    /\ outcome = Returns(<<"a">>)

\* C2: when the connection closes and no event gave a non-blank text, the call
\* raises "No content received from agent" and returns nothing.
C2_EmptyResultFails ==
    (ending = "closed" /\ Fragments(lines) = <<>>) =>
        /\ pc = "raised"
        /\ outcome = Raises("Exception", "No content received from agent", 0, <<>>)

\* The stream closed after events that gave only a blank text.
C2_Witness ==
    /\ ending = "closed"
    /\ lines = <<LineDirectBlank, LineBroken>>
    /\ event_count = 2
    /\ pc = "raised"

\* C3: once stage 1's call has failed, no request goes to the stage-2 agent,
\* no second call is made, and the workflow's report names stage 1 with the
\* error the call raised.
C3_StageOneFailureStops ==
    (history # <<>> /\ history[1].kind = "raise") =>
        /\ Len(history) = 1
        /\ stage = 1
        /\ \A i \in 1..Len(requests) : requests[i].port # BlogPostPort
        /\ wpc = "done" =>
               report = [stage |-> 1, label |-> "Research failed",
                         error |-> history[1]]

\* Stage 1 ended with the empty-result error and the workflow has returned.
C3_Witness ==
    /\ wpc = "done"
    /\ stage = 1
    /\ outcome.msg = "No content received from agent"
    /\ report.stage = 1
    /\ report.label = "Research failed"

\* C4: when the connection closes and the call returns, the result is the
\* fragments of all lines, in arrival order, joined with no separator and
\* trimmed at both ends.
C4_ResultIsJoinedFragments ==
    (ending = "closed" /\ pc = "returned") =>
        outcome = Returns(Strip(Join(Fragments(lines))))

\* Three lines with five texts, one of them blank: "a " "b" "c" " d" "7".
C4_Witness ==
    /\ ending = "closed"
    /\ lines = <<LineStatusA, LineStatusBC, LineDirectD>>
    /\ outcome = Returns(<<"a", " ", "b", "c", " ", "d", "7">>)

\* C5: a call whose response status is >= 400 fails with the error that
\* carries the status code and at most the first 500 characters of the body,
\* and reads no line.
C5_HttpErrorCarriesStatus ==
    (status_code >= 400 /\ Settled) =>
        /\ outcome.kind = "raise"
        /\ outcome.msg = "Agent error: HTTP"
        /\ outcome.status = status_code
        /\ Len(outcome.excerpt) <= ExcerptLimit
        /\ lines = <<>>
        /\ chunks = <<>>

\* What the code does for C5: with a status >= 400 no line is read and the
\* call fails; when the body was read and decodes, the error carries the
\* status code and the first 500 characters of the body's text (all of it when
\* shorter); otherwise the error is the failure of the read or of the
\* decoding, and the status code is lost.
C5_HttpErrorBehaviour ==
    status_code >= 400 =>
        /\ lines = <<>> /\ payloads = <<>> /\ chunks = <<>> /\ event_count = 0
        /\ pc \in {"errbody", "raised"}
        /\ pc = "raised" =>
             CASE ending = "http_error" ->
                    /\ outcome.exc = "Exception"
                    /\ outcome.msg = "Agent error: HTTP"
                    /\ outcome.status = status_code
                    /\ LET text == BodyText(body)
                           n    == IF Len(text) < ExcerptLimit THEN Len(text)
                                   ELSE ExcerptLimit
                       IN /\ Len(outcome.excerpt) = n
                          /\ \A i \in 1..n : outcome.excerpt[i] = text[i]
               [] ending = "ReadError" ->
                    outcome = Raises("Exception", "Stream error", 0, <<>>)
               [] ending = "ReadTimeout" ->
                    outcome = Raises("ReadTimeout", "", 0, <<>>)
               [] ending = "UnicodeDecodeError" ->
                    /\ body = BodyInvalid
                    /\ outcome = Raises("UnicodeDecodeError", "", 0, <<>>)

\* A 503 whose body of 502 bytes and 501 characters was cut to 500 characters.
C5_ExcerptCut ==
    /\ status_code = 503
    /\ body = BodyWide
    /\ pc = "raised"
    /\ outcome.status = 503
    /\ Len(outcome.excerpt) = ExcerptLimit
    /\ outcome.excerpt[ExcerptLimit] = "y"

\* C6: a call settles once, and what it returns is never empty or blank.
C6_SettlesOnceNonEmpty ==
    /\ Settled => finalized = 1
    /\ ~Settled => (finalized = 0 /\ outcome = NoOutcome)
    /\ Settled => \/ outcome.kind = "raise"
                  \/ outcome.kind = "return" /\ NonBlank(outcome.value)
    /\ pc = "returned" <=> outcome.kind = "return"

\* A read error after a blank text and a real one: the soft completion
\* returned a non-empty result.
C6_Witness ==
    /\ ending = "ReadError"
    /\ lines = <<LineDirectBlank, LineStatusA>>
    /\ pc = "returned"
    /\ finalized = 1

\* C7: a POST to the stage-2 agent is made only when stage 1's call has
\* returned, and the text it carries is the string that call returned.
C7_StageTwoGetsStageOneResult ==
    \A i \in 1..Len(requests) :
        (requests[i].port = BlogPostPort /\ requests[i].method = "POST") =>
            /\ history # <<>>
            /\ history[1].kind = "return"
            /\ requests[i].json = <<MessagePayload(history[1].value)>>
            /\ research_content = history[1].value

\* Stage 2 was called with stage 1's result "a [hi".
C7_Witness ==
    /\ stage = 2
    /\ pc = "open"
    /\ Len(history) = 1
    /\ history[1].value = <<"a", " ", " ", "[", "h", "i">>
    /\ text_input = history[1].value
    /\ requests[Len(requests)].port = BlogPostPort

\* C8: the payloads the reader passes on are the remainders of the lines
\* that start with "data: " and whose remainder is neither blank nor [DONE],
\* in order; a line that is no event raises nothing.
C8_ReaderYieldsEvents ==
    LET events == SelectSeq(lines, IsEvent) IN
    /\ payloads = [i \in 1..Len(events) |-> Remainder(events[i])]
    /\ event_count = Len(events)
    /\ (ending \in ExtractionErrors) =>
           (lines # <<>> /\ IsEvent(lines[Len(lines)]))

\* A line without the blank after the colon, a [DONE] line and a text line:
\* one payload.
C8_Witness ==
    /\ lines = <<LineNoPrefix, LineDone, LinePlain>>
    /\ payloads = << <<" ", "[", "h", "i", " ">> >>
    /\ pc = "stream"

\* C9: a keepalive line neither ends the call nor hides later lines: the
\* chunks are those of the other lines, and a call whose last line is a
\* keepalive is still reading unless the connection closed or failed.
C9_KeepaliveDoesNotEnd ==
    LET others == SelectSeq(lines, LAMBDA l : ~IsKeepalive(l)) IN
    /\ chunks = Fragments(others)
    /\ (lines # <<>> /\ IsKeepalive(lines[Len(lines)])) =>
           \/ pc = "stream"
           \/ ending \in {"closed"} \cup StreamErrors
    /\ (ending = "closed" /\ pc = "returned") =>
           outcome.value = Strip(Join(Fragments(others)))

\* A text line after "data: [DONE]" and a blank data line is in the result.
C9_Witness ==
    /\ lines = <<LineDone, LineBlank, LineStatusA>>
    /\ ending = "closed"
    /\ outcome = Returns(<<"a">>)

\* C10: an event whose payload is not JSON and does not start with a brace
\* (after blanks) appends the payload itself, unchanged, as one chunk.
C10_PlainTextVerbatim ==
    [][\A line \in Lines :
         (/\ pc = "stream"
          /\ lines' = Append(lines, line)
          /\ IsEvent(line)
          /\ ~JsonLoads(Remainder(line)).ok
          /\ LStrip(Remainder(line))[1] # "{")
         => chunks' = Append(chunks, Remainder(line))]_vars

\* The plain line " [hi " after a fragment: both are chunks, the second with
\* its blanks.
C10_Witness ==
    /\ lines = <<LineStatusA, LinePlain>>
    /\ chunks = << <<"a", " ">>, <<" ", "[", "h", "i", " ">> >>

\* The payloads that are malformed JSON by their look: the trimmed form starts
\* with a brace and json.loads rejects them.
BrokenLines == {LineBroken, LineBrokenBlank}

\* C11: reading a line whose payload starts, once trimmed, with a brace and is
\* not JSON appends nothing to chunks, raw or otherwise, and leaves the call
\* reading: the next line is processed as usual.
C11_BrokenJsonDiscarded ==
    [][(pc = "stream" /\ lines' # lines /\ lines'[Len(lines')] \in BrokenLines) =>
          /\ chunks' = chunks
          /\ event_count' = event_count + 1
          /\ pc' = "stream"]_vars

\* Both malformed payloads were read and discarded, the event after them gave
\* its text, and the call returned that text alone.
C11_Witness ==
    /\ lines = <<LineBroken, LineBrokenBlank, LineStatusA>>
    /\ event_count = 3
    /\ chunks = << <<"a", " ">> >>
    /\ outcome = Returns(<<"a">>)

\* C12: no call ends with an error raised while one event was handled (a
\* payload that is not JSON, or an envelope whose fields have another shape,
\* gives no fragment and the loop goes on), so a stream that closes after at
\* least one fragment returns the fragments of its well-formed events.
C12_ParseErrorsAbsorbed ==
    /\ ending \notin ExtractionErrors
    /\ (ending = "closed" /\ Fragments(lines) # <<>>) =>
           outcome = Returns(Strip(Join(Fragments(lines))))

\* C13: parse_streaming_json called on a text without "statusUpdate" returns
\* that text as it is, and returns it again when called on its own result.
C13_UnmarkedUnchanged ==
    (parse_pc = "returned" /\ ~Contains(parse_input, K_statusUpdate)) =>
        /\ parse_result = parse_input
        /\ ParseStreamingJson(parse_result).result = parse_result

\* A text that has a JSON object, a text field and a blank at its end, and no
\* marker: {"content":[{"text":"d"}]}hi
C13_Witness ==
    /\ parse_pc = "returned"
    /\ parse_input = PieceDirectD \o PiecePlain
    /\ parse_result = PieceDirectD \o PiecePlain

\* The well-formed status envelopes of the modelled messages in which no string
\* holds "}{", and the text each carries.
PlainEnvelopes == {PieceA, PieceBC, PieceW, PiecePipes, PieceEmptyText}

TextOf(piece) ==
    CASE piece = PieceA         -> <<"a", " ">>
      [] piece = PieceBC        -> <<"b", " ", "c">>
      [] piece = PieceW         -> <<" ", "w">>
      [] piece = PiecePipes     -> <<"p", "|", "|", "|", "q">>
      [] piece = PieceEmptyText -> <<>>

\* C14: for a text that is N such envelopes one after the other with nothing
\* between them, parse_streaming_json returns their texts T_1 ... T_N joined
\* in order with nothing added and nothing lost (up to the blanks at the two
\* ends of the whole, which the final strip() removes).
C14_SplitterRoundTrip ==
    parse_pc = "returned" =>
        \A n \in 1..MaxParts : \A ps \in [1..n -> PlainEnvelopes] :
            parse_input = Join(ps) =>
                parse_result = Strip(Join([i \in 1..n |-> TextOf(ps[i])]))

C16_SplitterBeforeWorkflow ==
    initial_state.built =>
        IF Contains(MessageText(agent_message), K_statusUpdate)
        THEN /\ parse_pc = "returned"
             /\ parse_input = MessageText(agent_message)
             /\ initial_state.research_content = parse_result
        ELSE /\ parse_pc = "idle"
             /\ initial_state.research_content = MessageText(agent_message)

\* A message of two envelopes reached the workflow as the text "a b c".
C16_Witness ==
    /\ agent_pc = "workflow"
    /\ agent_message = <<TextPartOf(PieceA), TextPartOf(PieceBC)>>
    /\ parse_route = "chunks"
    /\ initial_state = [topic |-> <<"a", " ", "b", " ", "c">>,
                        research_content |-> <<"a", " ", "b", " ", "c">>,
                        built |-> TRUE]

\* What a call gives when it runs alone on the lines ls and leaves the loop
\* the way named by how: stated from the texts the lines carry.
AloneOutcome(ls, how) ==
    LET text == Strip(Join(Fragments(ls))) IN
    CASE how = "closed" ->
             IF text # <<>> THEN Returns(text)
             ELSE Raises("Exception", "No content received from agent", 0, <<>>)
      [] how = "ReadError" ->
             IF Fragments(ls) # <<>> THEN Returns(text)
             ELSE Raises("Exception", "Stream error", 0, <<>>)
      [] how = "ReadTimeout"    -> Raises("ReadTimeout", "", 0, <<>>)
      [] how = "cancelled"      -> Raises("CancelledError", "", 0, <<>>)
      [] how = "AttributeError" -> Raises("AttributeError", "", 0, <<>>)

\* C17: whatever the interleaving of two calls, and whether they run on one
\* client object or on two, a call that has ended after reading its lines gave
\* what it gives alone on these lines, and one that ended on its HTTP error
\* carries its own status code.
C17_CallsIndependent ==
    \A c \in CallIds :
        /\ calls[c].ending \in {"closed", "ReadError", "ReadTimeout",
                                "cancelled", "AttributeError"} =>
               calls[c].outcome = AloneOutcome(calls[c].lines, calls[c].ending)
        /\ calls[c].ending = "http_error" =>
               calls[c].outcome.status = calls[c].status_code

\* Both calls ran on one client object, interleaved line by line, and each
\* returned the text of its own two lines.
C17_Witness ==
    /\ calls[1].client = calls[2].client
    /\ calls[1].lines = <<LineStatusA, LineDirectD>>
    /\ calls[2].lines = <<LineDirectD, LineStatusA>>
    /\ calls[1].outcome = Returns(<<"a", " ", " ", "d", "7">>)
    /\ calls[2].outcome = Returns(<<"d", "7", "a">>)

\* C18: a call that is cancelled gives no result: it raises CancelledError and
\* returns nothing, whatever it had accumulated.
C18_CancelDiscards ==
    \A c \in CallIds :
        calls[c].ending = "cancelled" =>
            /\ calls[c].pc = "raised"
            /\ calls[c].outcome = Raises("CancelledError", "", 0, <<>>)

\* A call was cancelled in the loop after it had accumulated the text "a ".
C18_Witness ==
    /\ calls[1].ending = "cancelled"
    /\ calls[1].lines = <<LineStatusA>>
    /\ calls[1].chunks = << <<"a", " ">> >>
    /\ calls[1].outcome.kind = "raise"

\* The POST requests sent so far, in order.
Posts == SelectSeq(requests, LAMBDA r : r.method = "POST")

\* C19: every invoke_agent call sends one POST to /v1/message:stream, whatever
\* it then returns or raises (as many POSTs as calls entered); a workflow
\* makes at most one call per stage, the first to the research agent and the
\* second to the blog agent, and makes no call after one that failed.
C19_OnePostNoRetry ==
    /\ Len(Posts) = Len(history) + (IF pc \in {"open", "errbody", "stream"} THEN 1 ELSE 0)
    /\ Len(Posts) <= 2
    /\ \A i \in 1..Len(Posts) :
          /\ Posts[i].port = AgentPort(i)
          /\ Posts[i].path = PostPath
    /\ \A i \in 1..Len(history) :
          history[i].kind = "raise" => (i = Len(history) /\ Len(Posts) = i)

\* Stage 1 returned, stage 2 failed with the HTTP error 503, the workflow has
\* ended, and two POSTs were sent in all.
C19_Witness ==
    /\ wpc = "done"
    /\ Len(history) = 2
    /\ history[1].kind = "return"
    /\ history[2].kind = "raise"
    /\ history[2].status = 503
    /\ Len(Posts) = 2

\* The answers that make the discovery fail: no connection, a status outside
\* 200..299, a body that is not JSON.
FailedReplies == {ReplyRefused, ReplyNotFound, ReplyUnavailable, ReplyUndecodable}

\* The position of the last GET of a card among the requests.
LastGet == CHOOSE i \in 1..Len(requests) :
               /\ requests[i].method = "GET"
               /\ \A j \in (i + 1)..Len(requests) : requests[j].method # "GET"

\* C20: after a discovery that failed, agent_card is the empty dict, nothing
\* was raised into the workflow, and the workflow is about to call
\* invoke_agent for that stage or has sent that stage's POST right after the
\* GET.
C20_DiscoveryNonFatal ==
    card_reply \in FailedReplies =>
        /\ agent_card = [fetched |-> TRUE, card |-> JDict(<<>>)]
        /\ wpc # "crashed"
        /\ \/ wpc = "invoke" /\ LastGet = Len(requests)
           \/ /\ LastGet < Len(requests)
              /\ requests[LastGet + 1].method = "POST"
              /\ requests[LastGet + 1].port = requests[LastGet].port

\* The blog agent answered its card request with a page that is not JSON, and
\* stage 2 was invoked all the same and returned.
C20_Witness ==
    /\ card_reply = ReplyUndecodable
    /\ stage = 2
    /\ Len(requests) = 4
    /\ requests[3].method = "GET"
    /\ requests[4].method = "POST"
    /\ requests[4].port = BlogPostPort
    /\ pc = "returned"

\* The texts of the text parts of a message, in order.
MatchingTexts(parts) ==
    SelectSeq([i \in 1..Len(parts) |->
                 IF parts[i].kind = "text" THEN <<parts[i].text>> ELSE <<>>],
              LAMBDA t : t # <<>>)

\* C21: when a message has several text parts, the text a handler works on is
\* the first text part's text or all their texts concatenated in order, never
\* a later part's text alone.
C21_FirstOrConcatenation ==
    (agent_pc = "received" /\ Len(MatchingTexts(agent_message)) >= 2) =>
        \/ agent_content = MatchingTexts(agent_message)[1][1]
        \/ agent_content = MessageText(agent_message)

\* The lines whose payload is an object with both statusUpdate and a top-level
\* content, and the texts under statusUpdate.status.message.content of each.
BothKeyLines == {LineBothText, LineStatusEmpty}

StatusPathTexts(line) == IF line = LineBothText THEN << <<"s">> >> ELSE <<>>

\* C22: an event whose payload has both statusUpdate and a top-level content
\* adds the texts found under statusUpdate.status.message.content and nothing
\* else; the top-level content is ignored even when that path gives no text.
C22_StatusBeforeDirect ==
    [][(pc = "stream" /\ lines' # lines /\ lines'[Len(lines')] \in BothKeyLines) =>
          /\ chunks' = chunks \o StatusPathTexts(lines'[Len(lines')])
          /\ pc' = "stream"]_vars

\* Both payloads were read: the one without a status gave nothing, the other
\* gave the text under statusUpdate, and neither top-level text was returned.
C22_Witness ==
    /\ lines = <<LineStatusEmpty, LineBothText>>
    /\ chunks = << <<"s">> >>
    /\ outcome = Returns(<<"s">>)

\* The lines whose payload has statusUpdate without status, message or content.
MissingKeyLines == {LineNoStatus, LineNoMessage, LineNoContent}

\* C23: an event whose statusUpdate lacks status, message or content adds no
\* fragment and raises nothing, in invoke_agent and in the loop of
\* parse_streaming_json alike, and invoke_agent goes on reading.
C23_MissingKeysTolerated ==
    [][(pc = "stream" /\ lines' # lines /\ lines'[Len(lines')] \in MissingKeyLines) =>
          /\ chunks' = chunks
          /\ event_count' = event_count + 1
          /\ pc' = "stream"
          /\ ending' = ""
          /\ ObjectTexts(Remainder(lines'[Len(lines')])) = Extracted(<<>>)]_vars

\* Two payloads with a missing key were read, the event after them gave its
\* text, and the call returned it.
C23_Witness ==
    /\ Len(lines) = 3
    /\ lines[1] \in MissingKeyLines
    /\ lines[2] \in MissingKeyLines \ {lines[1]}
    /\ lines[3] = LineStatusA
    /\ event_count = 3
    /\ outcome = Returns(<<"a">>)

\* The lines whose payload is JSON of no known shape: an object with neither
\* key, a list, a string, null, a number.
ShapelessLines == {LineUnknown, LineList, LineString, LineNull, LineNumber}

\* C24: an event whose payload is JSON of no known shape adds nothing to
\* chunks (neither a fragment nor the payload as text) and leaves the call
\* reading, with nothing raised.
C24_UnknownShapeIgnored ==
    [][(pc = "stream" /\ lines' # lines /\ lines'[Len(lines')] \in ShapelessLines) =>
          /\ chunks' = chunks
          /\ event_count' = event_count + 1
          /\ pc' = "stream"
          /\ ending' = ""]_vars

\* Two payloads of no known shape were read as events, the event after them
\* gave its text, and the call returned that text alone.
C24_Witness ==
    /\ Len(lines) = 3
    /\ lines[1] \in ShapelessLines
    /\ lines[2] \in ShapelessLines \ {lines[1]}
    /\ lines[3] = LineBothText
    /\ event_count = 3
    /\ outcome = Returns(<<"s">>)

\* C25: each pass of the loop of parse_streaming_json adds, for its candidate,
\* the fragments the extraction of invoke_agent gives for the same payload:
\* status and direct envelopes both read, blank texts dropped.
C25_SameRulesAsExtractor ==
    [][(parse_pc = "loop" /\ parse_idx' = parse_idx + 1) =>
          parsed_chunks' =
              parsed_chunks \o ExtractEvent(json_objects[parse_idx'], parse_idx').texts]_vars

SuccessLabels == {"Workflow completed successfully!", "A2A Workflow Demo Completed!"}

\* C26: in orchestrate_workflow and run_complete_workflow, once a step has
\* failed no later step is posted to an agent and the workflow does not
\* report that it completed.
C26_OrchestratorsAbort ==
    \A i \in 1..Len(history) :
        history[i].how # "ok" =>
            /\ \A k \in 1..Len(requests) :
                  ~(requests[k].method = "POST" /\ requests[k].step > history[i].step)
            /\ report.label \notin SuccessLabels

\* C27: parse_streaming_json called on a text that contains "statusUpdate"
\* never returns an empty or blank string.
C27_NeverReturnsBlank ==
    (parse_pc = "returned" /\ Contains(parse_input, K_statusUpdate)) =>
        Strip(parse_result) # <<>>

\* The failures of a stream under consumption that are not read errors.
OtherFailures == (ConsumeErrors \ {"ReadError"}) \cup ExtractionErrors

\* C28: a call that ends while its stream is consumed returns its accumulated
\* text on a read error only; a read timeout, a protocol error or an exception
\* of the extraction is raised as it is, whatever was accumulated.
C28_SoftOnlyOnReadError ==
    /\ (Settled /\ ending \in OtherFailures) =>
           outcome = Raises(ending, "", 0, <<>>)
    /\ (Settled /\ ending = "ReadError" /\ chunks # <<>>) =>
           outcome = Returns(JoinedResult(chunks))
    /\ (Settled /\ outcome.kind = "return") => ending \in {"closed", "ReadError"}

\* Fragments had been accumulated when a failure that is no read error ended
\* the call, and the call raised.
C28_Witness ==
    /\ chunks # <<>>
    /\ ending \in OtherFailures
    /\ pc = "raised"
    /\ outcome.kind = "raise"

\* C29: what the extraction gives for a payload does not depend on the
\* ordinal of its event: every payload read as the i-th event would have
\* given the same as any other event, among the first events that are printed
\* or after them.
C29_OrdinalIndependent ==
    \A i \in 1..Len(payloads) :
        \A n \in 1..(DebugEvents + 1) :
            ExtractEvent(payloads[i], n) = ExtractEvent(payloads[i], i)

\* C30: in both workflows every POST to the second agent carries a text that
\* is neither empty nor blank: the text stage 1 returned, whatever its stream
\* carried and however it ended.
C30_StageTwoInputNotBlank ==
    /\ \A k \in 1..Len(requests) :
          (requests[k].method = "POST" /\ requests[k].port = BlogPostPort) =>
              /\ requests[k].json = <<MessagePayload(history[1].value)>>
              /\ Strip(history[1].value) # <<>>
    /\ (stage = 2 /\ pc # "idle") => Strip(text_input) # <<>>

\* Stage 1 read a blank text after a fragment and was cut off by a read
\* error; stage 2 was then invoked with the trimmed fragment.
C30_Witness ==
    /\ stage = 2
    /\ pc # "idle"
    /\ history[1] = Returns(<<"a">>)
    /\ text_input = <<"a">>
    /\ \E k \in 1..Len(requests) :
          requests[k].method = "POST" /\ requests[k].port = BlogPostPort

====
